---- MODULE Spec2Model ----
(***************************************************************************)
(* A model of hyeong-rs: the instruction parser (src/src/parser.rs,        *)
(* src/src/structure.rs), the rational value (src/src/rational.rs), the    *)
(* scalar reader (src/src/utf8.rs), the stack manager (src/src/stack.rs)   *)
(* and the processor (src/src/processor.rs).                               *)
(*                                                                         *)
(* Characters are Unicode scalar values (integers).  The Hangul literals   *)
(* of parser.rs are the ones structure.rs spells out: parser.rs passes     *)
(* them to Operation::from_chars, whose match arms name them.              *)
(***************************************************************************)
EXTENDS Integers, Sequences, FiniteSets, TLC

VARIABLES
    source,           \* the &str handed to Parser::from_str
    code,             \* Parser.code: the characters the iterator has not yielded yet
    operation_cache,  \* Parser.operation_cache
    token_cache,      \* Parser.token_cache
    cache_span,       \* where in source the cached operation starts and ends
    yielded,          \* the instructions Parser::next has returned, in order
    spans,            \* for each yielded instruction, where its operation starts and ends
    ended,            \* Parser::next has returned None
    lhs,              \* rational value: left operand
    rhs,              \* rational value: right operand
    applied,          \* rational value: the operation applied last
    result,           \* rational value: what that operation returned
    stacks,           \* StackManager.stacks: id -> the values the stack holds
    selected,         \* StackManager.selected
    exit_code,        \* StackManager.exit_code
    stdin,            \* the bytes not yet read from the reader of stack 0
    stdout,           \* the characters written to the writer of stack 1
    stderr,           \* the characters written to the writer of stack 2
    flushes,          \* how many times StackManager::flush has run
    panicked,         \* a panic has unwound the program
    called,           \* the StackManager method called last, with the state it was called in
    instructions,     \* Processor.instructions
    position,         \* Processor.position
    last_jump,        \* Processor.last_jump
    labels,           \* Processor.labels
    returned,         \* what Processor::run has returned
    steps,            \* how many times Processor::advance has run
    last_step         \* what the last Processor::advance did

parserVars == <<source, code, operation_cache, token_cache, cache_span, yielded, spans, ended>>
rationalVars == <<lhs, rhs, applied, result>>
managerVars == <<stacks, selected, exit_code, stdin, stdout, stderr, flushes, panicked>>
processorVars == <<instructions, position, last_jump, labels, returned, steps, last_step>>
machineVars == <<stacks, selected, exit_code, stdin, stdout, stderr, flushes, panicked, called,
                 instructions, position, last_jump, labels, returned, steps, last_step>>
vars == <<source, code, operation_cache, token_cache, cache_span, yielded, spans, ended,
          lhs, rhs, applied, result,
          stacks, selected, exit_code, stdin, stdout, stderr, flushes, panicked, called,
          instructions, position, last_jump, labels, returned, steps, last_step>>

-----------------------------------------------------------------------------
(* Bounds of the model *)

\* longest text over the syllable alphabet
MaxLen == 5
\* longest token run over the token alphabet
MaxRun == 5
\* longest text into which a filler character is inserted
InsertLen == 4
\* longest text over the whole alphabet
ShortLen == 2
\* largest numerator (in absolute value) and denominator of a rational input
MaxNum == 3
\* longest sequence of calls of the stack manager
MaxOps == 3
\* most instructions of a program made of snippets
MaxInstr == 3
\* most steps of a run of the processor
MaxSteps == 16
\* most bytes of a reader the scalar reader is called on
MaxBytes == 4
\* most calls of push_one and pop_one on a read stack
MaxStackOps == 5

-----------------------------------------------------------------------------
(* Characters *)

Hyeong == 54805   \* U+D615
Hang   == 54637   \* U+D56D
Hat    == 54635   \* U+D56B
Heut   == 55139   \* U+D763
Heup   == 55137   \* U+D761
Heuk   == 55121   \* U+D751
Hyeo   == 54784   \* U+D600
Ha     == 54616   \* U+D558
Heu    == 55120   \* U+D750
Eong   == 50633   \* U+C5C9
Ang    == 50521   \* U+C559
At     == 50519   \* U+C557
Eut    == 51023   \* U+C74F
Eup    == 51021   \* U+C74D
Euk    == 51005   \* U+C73D
HangulFirst == 44032  \* U+AC00
HangulLast  == 55203  \* U+D7A3

\* Option: None is the empty sequence, Some(x) the sequence of x alone
None == <<>>
Some(x) == <<x>>

\* HangulStartType::from_char
HangulStartType_from_char(c) ==
    CASE c = Hyeo   -> "Hyeo"
      [] c = Ha     -> "Ha"
      [] c = Heu    -> "Heu"
      [] c = Hyeong -> "Hyeong"
      [] c = Hang   -> "Hang"
      [] c = Hat    -> "Hat"
      [] c = Heut   -> "Heut"
      [] c = Heup   -> "Heup"
      [] c = Heuk   -> "Heuk"
      [] OTHER      -> "None"

\* is_self_ending with Heuk left out of the self-ending syllables
is_self_ending_without_heuk(start) == start \notin {"Hyeo", "Ha", "Heu", "Heuk"}

\* HangulStartType::is_self_ending
is_self_ending(start) == start \notin {"Hyeo", "Ha", "Heu"}

\* Into<char> for HangulStartType
HangulStartType_into(start) ==
    CASE start = "Hyeo"   -> Hyeo
      [] start = "Ha"     -> Ha
      [] start = "Heu"    -> Heu
      [] start = "Hyeong" -> Hyeong
      [] start = "Hang"   -> Hang
      [] start = "Hat"    -> Hat
      [] start = "Heut"   -> Heut
      [] start = "Heup"   -> Heup
      [] start = "Heuk"   -> Heuk

\* the string literal parse_hangul tests each character against
TriggerChars == {Hyeong, Hang, Hat, Heut, Heup, Heuk, Hyeo, Ha, Heu}

HEART_MARKS == <<9829, 10084, 128149, 128150, 128151, 128152,
                 128153, 128154, 128155, 128156, 128157>>

\* Token::from_char; a token is <<"Dot">>, <<"ThreeDots">>, <<"Heart", id>>,
\* <<"ReturnHeart">>, <<"ExclamationMark">> or <<"QuestionMark">>
Token_from_char(c) ==
    CASE c = 46                   -> Some(<<"Dot">>)
      [] c \in {8230, 8942, 8943} -> Some(<<"ThreeDots">>)
      [] c = 9825                 -> Some(<<"ReturnHeart">>)
      [] c = 33                   -> Some(<<"ExclamationMark">>)
      [] c = 63                   -> Some(<<"QuestionMark">>)
      [] OTHER ->
          IF \E p \in 1..Len(HEART_MARKS) : HEART_MARKS[p] = c
          THEN Some(<<"Heart", (CHOOSE p \in 1..Len(HEART_MARKS) : HEART_MARKS[p] = c) - 1>>)
          ELSE None

-----------------------------------------------------------------------------
(* Operation *)

PanicOp == [op_type |-> "Panic", hangul_count |-> 0]

\* the assertion of Operation::from_chars on the start/end pair
ValidPair(start, end) ==
    CASE start = Hyeo -> end = Eong
      [] start = Ha   -> end \in {Ang, At}
      [] start = Heu  -> end \in {Eut, Eup, Euk}
      [] OTHER        -> FALSE

\* Operation::from_chars; end is None or Some(character).  A failed assertion, the
\* unreachable arm and the panic arm all give PanicOp.
Operation_from_chars(start, end, count) ==
    IF end # None
    THEN IF ~ValidPair(start, end[1]) THEN PanicOp
         ELSE CASE end[1] = Eong -> [op_type |-> "Push",        hangul_count |-> count]
                [] end[1] = Ang  -> [op_type |-> "Add",         hangul_count |-> count]
                [] end[1] = At   -> [op_type |-> "Multiply",    hangul_count |-> count]
                [] end[1] = Eut  -> [op_type |-> "Negate",      hangul_count |-> count]
                [] end[1] = Eup  -> [op_type |-> "Reciprocate", hangul_count |-> count]
                [] end[1] = Euk  -> [op_type |-> "Duplicate",   hangul_count |-> count]
                [] OTHER         -> PanicOp
    ELSE CASE start = Hyeong -> [op_type |-> "Push",        hangul_count |-> 1]
           [] start = Hang   -> [op_type |-> "Add",         hangul_count |-> 1]
           [] start = Hat    -> [op_type |-> "Multiply",    hangul_count |-> 1]
           [] start = Heut   -> [op_type |-> "Negate",      hangul_count |-> 1]
           [] start = Heup   -> [op_type |-> "Reciprocate", hangul_count |-> 1]
           [] start = Heuk   -> [op_type |-> "Duplicate",   hangul_count |-> 1]
           [] OTHER          -> PanicOp

-----------------------------------------------------------------------------
(* Parser::parse_hangul and Parser::find_matching_end *)

\* the test of find_matching_end taking a closing syllable of any class
IsEnd_of_any_class(start, c) ==
    start \in {"Hyeo", "Ha", "Heu"} /\ c \in {Eong, Ang, At, Eut, Eup, Euk}

\* the test of find_matching_end for a closing syllable of start's class
IsEnd(start, c) ==
    CASE start = "Hyeo" -> c = Eong
      [] start = "Ha"   -> c \in {Ang, At}
      [] start = "Heu"  -> c \in {Eut, Eup, Euk}
      [] OTHER          -> FALSE

\* the range test of find_matching_end
InHangulBlock(c) == c >= HangulFirst /\ c <= HangulLast

RECURSIVE MatchingEndFrom(_, _, _)
MatchingEndFrom(start, iter, cnt) ==
    IF iter = <<>> THEN [found |-> FALSE, cnt |-> 0, c |-> 0, iter |-> <<>>]
    ELSE LET c  == Head(iter)
             n  == IF InHangulBlock(c) THEN cnt + 1 ELSE cnt
         IN  IF IsEnd(start, c)
             THEN [found |-> TRUE, cnt |-> n, c |-> c, iter |-> Tail(iter)]
             ELSE MatchingEndFrom(start, Tail(iter), n)

\* find_matching_end with the open syllable counted by the scan as well
find_matching_end_from_one(start, iter) == MatchingEndFrom(start, iter, 1)

\* Parser::find_matching_end
find_matching_end(start, iter) == MatchingEndFrom(start, iter, 0)

\* the inner loop with an unrecognised character emptying the token cache
RECURSIVE ScanToTrigger_clearing(_, _)
ScanToTrigger_clearing(rest, tokens) ==
    IF rest = <<>> THEN [start |-> "None", code |-> <<>>, tokens |-> tokens]
    ELSE LET c == Head(rest) IN
         IF c \in TriggerChars
         THEN [start |-> HangulStartType_from_char(c), code |-> Tail(rest), tokens |-> tokens]
         ELSE ScanToTrigger_clearing(Tail(rest),
                                     IF Token_from_char(c) # None
                                     THEN Append(tokens, Token_from_char(c)[1]) ELSE <<>>)

\* the inner while loop of parse_hangul: reads up to and including the next
\* trigger syllable, collecting the tokens on the way
RECURSIVE ScanToTrigger(_, _)
ScanToTrigger(rest, tokens) ==
    IF rest = <<>> THEN [start |-> "None", code |-> <<>>, tokens |-> tokens]
    ELSE LET c == Head(rest) IN
         IF c \in TriggerChars
         THEN [start |-> HangulStartType_from_char(c), code |-> Tail(rest), tokens |-> tokens]
         ELSE ScanToTrigger(Tail(rest),
                            IF Token_from_char(c) # None
                            THEN Append(tokens, Token_from_char(c)[1]) ELSE tokens)

\* the outer loop ending the stream at an open syllable that finds no closing
\* syllable
ParseLoop_stopping(rest, tokens) ==
    LET s == ScanToTrigger(rest, tokens) IN
    IF s.start = "None"
    THEN [op |-> None, code |-> s.code, tokens |-> s.tokens, from |-> 0, to |-> 0]
    ELSE IF is_self_ending(s.start)
    THEN [op |-> Some(Operation_from_chars(HangulStartType_into(s.start), None, 1)),
          code |-> s.code, tokens |-> s.tokens,
          from |-> Len(s.code), to |-> Len(s.code)]
    ELSE LET m == find_matching_end(s.start, s.code) IN
         IF m.found
         THEN [op |-> Some(Operation_from_chars(HangulStartType_into(s.start), Some(m.c), m.cnt + 1)),
               code |-> m.iter, tokens |-> s.tokens,
               from |-> Len(s.code), to |-> Len(m.iter)]
         ELSE [op |-> None, code |-> <<>>, tokens |-> s.tokens, from |-> 0, to |-> 0]

\* the outer loop starting over with an empty token cache after an open
\* syllable that finds no closing syllable
RECURSIVE ParseLoop_clearing(_, _)
ParseLoop_clearing(rest, tokens) ==
    LET s == ScanToTrigger(rest, tokens) IN
    IF s.start = "None"
    THEN [op |-> None, code |-> s.code, tokens |-> s.tokens, from |-> 0, to |-> 0]
    ELSE IF is_self_ending(s.start)
    THEN [op |-> Some(Operation_from_chars(HangulStartType_into(s.start), None, 1)),
          code |-> s.code, tokens |-> s.tokens,
          from |-> Len(s.code), to |-> Len(s.code)]
    ELSE LET m == find_matching_end(s.start, s.code) IN
         IF m.found
         THEN [op |-> Some(Operation_from_chars(HangulStartType_into(s.start), Some(m.c), m.cnt + 1)),
               code |-> m.iter, tokens |-> s.tokens,
               from |-> Len(s.code), to |-> Len(m.iter)]
         ELSE ParseLoop_clearing(s.code, <<>>)

\* the tokens of the characters, in order
RECURSIVE TokensOfChars(_)
TokensOfChars(chars) ==
    IF chars = <<>> THEN <<>>
    ELSE (IF Token_from_char(Head(chars)) # None
          THEN <<Token_from_char(Head(chars))[1]>> ELSE <<>>)
         \o TokensOfChars(Tail(chars))

\* the outer loop putting the tokens the scan for the closing syllable passes
\* into the token cache
RECURSIVE ParseLoop_keeping_scanned(_, _)
ParseLoop_keeping_scanned(rest, tokens) ==
    LET s == ScanToTrigger(rest, tokens) IN
    IF s.start = "None"
    THEN [op |-> None, code |-> s.code, tokens |-> s.tokens, from |-> 0, to |-> 0]
    ELSE IF is_self_ending(s.start)
    THEN [op |-> Some(Operation_from_chars(HangulStartType_into(s.start), None, 1)),
          code |-> s.code, tokens |-> s.tokens,
          from |-> Len(s.code), to |-> Len(s.code)]
    ELSE LET m == find_matching_end(s.start, s.code) IN
         IF m.found
         THEN [op |-> Some(Operation_from_chars(HangulStartType_into(s.start), Some(m.c), m.cnt + 1)),
               code |-> m.iter,
               tokens |-> s.tokens
                          \o TokensOfChars(SubSeq(s.code, 1, Len(s.code) - Len(m.iter))),
               from |-> Len(s.code), to |-> Len(m.iter)]
         ELSE ParseLoop_keeping_scanned(s.code, s.tokens)

\* the outer loop of parse_hangul.  from and to are the numbers of characters
\* of the text left after the operation's first and last character.
RECURSIVE ParseLoop(_, _)
ParseLoop(rest, tokens) ==
    LET s == ScanToTrigger(rest, tokens) IN
    IF s.start = "None"
    THEN [op |-> None, code |-> s.code, tokens |-> s.tokens, from |-> 0, to |-> 0]
    ELSE IF is_self_ending(s.start)
    THEN [op |-> Some(Operation_from_chars(HangulStartType_into(s.start), None, 1)),
          code |-> s.code, tokens |-> s.tokens,
          from |-> Len(s.code), to |-> Len(s.code)]
    ELSE LET m == find_matching_end(s.start, s.code) IN
         IF m.found
         THEN [op |-> Some(Operation_from_chars(HangulStartType_into(s.start), Some(m.c), m.cnt + 1)),
               code |-> m.iter, tokens |-> s.tokens,
               from |-> Len(s.code), to |-> Len(m.iter)]
         ELSE ParseLoop(s.code, s.tokens)

\* Parser::parse_hangul: clears the token cache, then scans
parse_hangul(rest) == ParseLoop(rest, <<>>)

-----------------------------------------------------------------------------
(* Parser::next: magnitude and heart tree of a token run *)

IsDots(token) == token[1] \in {"Dot", "ThreeDots"}

\* take_while: the leading run of Dot / ThreeDots tokens
RECURSIVE TakeWhileDots(_)
TakeWhileDots(tokens) ==
    IF tokens = <<>> \/ ~IsDots(Head(tokens)) THEN <<>>
    ELSE <<Head(tokens)>> \o TakeWhileDots(Tail(tokens))

\* the fold over that run
RECURSIVE FoldDots(_, _)
FoldDots(tokens, i) ==
    IF tokens = <<>> THEN i
    ELSE FoldDots(Tail(tokens),
                  CASE Head(tokens)[1] = "Dot"       -> i + 1
                    [] Head(tokens)[1] = "ThreeDots" -> i + 3
                    [] OTHER                         -> i)

\* the magnitude with a filter in place of take_while: every dot counts
Dots_of_all(tokens) == FoldDots(tokens, 0)

\* the magnitude of a token run (parser.rs 165-178)
Dots(tokens) == FoldDots(TakeWhileDots(tokens), 0)

\* the filter that keeps the tokens other than Dot and ThreeDots
RECURSIVE HeartTokens(_)
HeartTokens(tokens) ==
    IF tokens = <<>> THEN <<>>
    ELSE IF IsDots(Head(tokens)) THEN HeartTokens(Tail(tokens))
         ELSE <<Head(tokens)>> \o HeartTokens(Tail(tokens))

Nil == <<"Nil">>

\* current_heart.unwrap_or(HeartTree::Nil)
UnwrapOrNil(current_heart) == IF current_heart = None THEN Nil ELSE current_heart[1]

\* the pending leaf overwritten by every heart token
OrSome_last_wins(current_heart, leaf) == Some(leaf)

\* current_heart.or(Some(leaf))
OrSome(current_heart, leaf) == IF current_heart = None THEN Some(leaf) ELSE current_heart

Front(s) == SubSeq(s, 1, Len(s) - 1)
Last(s) == s[Len(s)]

\* the equals fold with the two popped nodes in the other order
RECURSIVE FoldEquals_swapped(_, _)
FoldEquals_swapped(tree, op_count) ==
    IF op_count = 0 THEN tree
    ELSE IF Len(tree) < 2 THEN <<"Underflow">>
    ELSE FoldEquals_swapped(Append(Front(Front(tree)),
                                   <<"Equals", Last(tree), Last(Front(tree))>>),
                            op_count - 1)

\* for _ in 0..op_count: pop rhs, pop lhs, push Equals(lhs, rhs).  The tree
\* <<"Underflow">> stands for the unwrap of a pop from an empty vector.
RECURSIVE FoldEquals(_, _)
FoldEquals(tree, op_count) ==
    IF op_count = 0 THEN tree
    ELSE IF Len(tree) < 2 THEN <<"Underflow">>
    ELSE FoldEquals(Append(Front(Front(tree)),
                           <<"Equals", Last(Front(tree)), Last(tree)>>),
                    op_count - 1)

\* the less-than fold with the two popped nodes in the other order
RECURSIVE FoldLessThan_swapped(_)
FoldLessThan_swapped(tree) ==
    IF Len(tree) <= 1 THEN tree
    ELSE FoldLessThan_swapped(Append(Front(Front(tree)),
                                     <<"LessThan", Last(tree), Last(Front(tree))>>))

\* while tree.len() > 1: pop rhs, pop lhs, push LessThan(lhs, rhs)
RECURSIVE FoldLessThan(_)
FoldLessThan(tree) ==
    IF Len(tree) <= 1 THEN tree
    ELSE FoldLessThan(Append(Front(Front(tree)),
                             <<"LessThan", Last(Front(tree)), Last(tree)>>))

\* one turn of the loop with a '?' doing nothing when no '!' is outstanding
HeartStep_question_ignored(st, token) ==
    CASE token[1] = "Heart" ->
            [st EXCEPT !.current_heart = OrSome(st.current_heart, <<"Heart", token[2]>>)]
      [] token[1] = "ReturnHeart" ->
            [st EXCEPT !.current_heart = OrSome(st.current_heart, <<"Return">>)]
      [] token[1] = "ExclamationMark" ->
            [current_heart |-> None,
             tree |-> Append(st.tree, UnwrapOrNil(st.current_heart)),
             op_count |-> st.op_count + 1]
      [] token[1] = "QuestionMark" ->
            IF st.op_count = 0 THEN st
            ELSE [current_heart |-> None,
                  tree |-> FoldEquals(Append(st.tree, UnwrapOrNil(st.current_heart)),
                                      st.op_count),
                  op_count |-> 0]
      [] OTHER -> st

\* one turn of the loop with a '!' that counts the request and pushes nothing
HeartStep_counting_only(st, token) ==
    CASE token[1] = "Heart" ->
            [st EXCEPT !.current_heart = OrSome(st.current_heart, <<"Heart", token[2]>>)]
      [] token[1] = "ReturnHeart" ->
            [st EXCEPT !.current_heart = OrSome(st.current_heart, <<"Return">>)]
      [] token[1] = "ExclamationMark" ->
            [current_heart |-> None, tree |-> st.tree, op_count |-> st.op_count + 1]
      [] token[1] = "QuestionMark" ->
            [current_heart |-> None,
             tree |-> FoldEquals(Append(st.tree, UnwrapOrNil(st.current_heart)), st.op_count),
             op_count |-> 0]
      [] OTHER -> st

\* one turn of the loop over the heart tokens
HeartStep(st, token) ==
    CASE token[1] = "Heart" ->
            [st EXCEPT !.current_heart = OrSome(st.current_heart, <<"Heart", token[2]>>)]
      [] token[1] = "ReturnHeart" ->
            [st EXCEPT !.current_heart = OrSome(st.current_heart, <<"Return">>)]
      [] token[1] = "ExclamationMark" ->
            [current_heart |-> None,
             tree |-> Append(st.tree, UnwrapOrNil(st.current_heart)),
             op_count |-> st.op_count + 1]
      [] token[1] = "QuestionMark" ->
            [current_heart |-> None,
             tree |-> FoldEquals(Append(st.tree, UnwrapOrNil(st.current_heart)), st.op_count),
             op_count |-> 0]
      [] OTHER -> st

RECURSIVE HeartLoop(_, _)
HeartLoop(st, hearts) ==
    IF hearts = <<>> THEN st
    ELSE HeartLoop(HeartStep(st, Head(hearts)), Tail(hearts))

\* the output stack once every equals request is drained (parser.rs 180-220)
EqualsGroups(tokens) ==
    LET st == HeartLoop([current_heart |-> None, tree |-> <<>>, op_count |-> 0],
                        HeartTokens(tokens))
    IN  FoldEquals(Append(st.tree, UnwrapOrNil(st.current_heart)), st.op_count)

\* the heart tree of a token run (parser.rs 180-226)
Hearts(tokens) ==
    LET tree == FoldLessThan(EqualsGroups(tokens))
    IN  IF tree = <<>> THEN Nil ELSE Last(tree)

\* Instruction::new
Instruction_new(op, dots, hearts) == [op |-> op, dots |-> dots, hearts |-> hearts]

-----------------------------------------------------------------------------
(* The parser as a state machine *)

SelfEndingChars == {Hyeong, Hang, Hat, Heut, Heup, Heuk}
OpenChars == {Hyeo, Ha, Heu}
ClosingChars == {Eong, Ang, At, Eut, Eup, Euk}

\* every class of character the parser tells apart, with the characters next
\* to the ends of the Hangul block and two hearts that are no heart marks
FullAlphabet ==
    TriggerChars \cup ClosingChars
    \cup {HangulFirst, HangulLast, HangulFirst - 1, HangulLast + 1, 50612}
    \cup {32, 46, 8230, 8942, 8943, 9825, 33, 63, 10085, 128158}
    \cup {HEART_MARKS[p] : p \in 1..Len(HEART_MARKS)}

SyllableAlphabet == {Hyeong, Hyeo, Ha, Eong, At, 32, 46}
TokenAlphabet == {46, 8230, 32, 9829, 9825, 33, 63}

(* Texts of the tests of parser.rs *)

\* the text of the test at parser.rs, line 303
Text_simple ==
    <<54784, 50633, 46, 46, 46>>

\* the text of the test at parser.rs, line 313
Text_self_ending ==
    <<54805, 32, 54637, 46, 32, 54635, 46, 46, 46, 32, 55137, 46, 46, 32, 55121, 46,
      32, 55139, 46, 46, 46, 46, 46>>

\* the six self-ending syllables in the order of OperationType
Text_six_self_ending ==
    <<54805, 54637, 54635, 55139, 55137, 55121>>

\* the text of the test at parser.rs, line 343
Text_noop ==
    <<55120, 51004, 51025, 46, 46, 46, 32, 45320, 47924, 32, 52964, 50631, 46, 46,
      46>>

\* the text of the test at parser.rs, line 395
Text_very_long_hangul ==
    <<54784, 54616, 50521, 46, 46, 46, 32, 55120, 51004, 51023, 46, 46, 32, 55137,
      32, 55120, 51005, 46, 46, 46, 46, 46, 46, 32, 54784, 50612, 50612, 50633, 46,
      46, 46, 46, 46, 46, 46>>

\* the text of the test at parser.rs, line 403
Text_xnuk_long ==
    <<54784, 51068, 46, 46, 46, 46, 51060, 49340, 49324, 50724, 50977, 50521, 9829,
      50519, 63, 33, 51023, 9825, 51021, 46, 46, 46, 50633>>

\* the text of the test at parser.rs, line 413
Text_endless_hangul ==
    <<54784, 54805, 54616, 50521, 46, 46, 46, 32, 55120, 51004, 51023, 46, 46, 32,
      55137, 32, 55120, 51005, 46, 46, 46, 46, 46, 46, 32, 54616, 50519, 46>>

\* the text of the test at parser.rs, line 444
Text_triple_dots ==
    <<54616, 50519, 46, 32, 8230, 32, 8943, 32, 8942>>

\* the text of the test at parser.rs, line 458
Text_hearts_1 ==
    <<54616, 50519, 46, 46, 46, 46, 9829, 9825, 33>>

\* the text of the test at parser.rs, line 469
Text_hearts_2 ==
    <<54616, 50500, 50519, 46, 46, 32, 46, 32, 63, 32, 9829, 32, 33, 32, 128150>>

\* the text of the test at parser.rs, line 483
Text_hearts_3 ==
    <<54616, 50500, 50519, 46, 46, 46, 33, 32, 9829, 32, 63, 32, 128150>>

\* the text of the test at parser.rs, line 497
Text_hearts_4 ==
    <<55120, 51023, 46, 46, 46, 33, 9825, 33>>

Fixtures ==
    {Text_simple,
     Text_self_ending,
     Text_six_self_ending,
     Text_noop,
     Text_very_long_hangul,
     Text_xnuk_long,
     Text_endless_hangul,
     Text_triple_dots,
     Text_hearts_1,
     Text_hearts_2,
     Text_hearts_3,
     Text_hearts_4}

TextsOver(alphabet, n) == UNION {[1..k -> alphabet] : k \in 0..n}

\* a self-ending syllable, then an open syllable closed after a dot, a heart
\* and an exclamation mark, then a dot
Text_tokens_in_scan ==
    <<54805, 54784, 46, 9829, 33, 50633, 46>>

Texts ==
    TextsOver(FullAlphabet, ShortLen)
    \cup {Text_tokens_in_scan}
    \cup TextsOver(SyllableAlphabet, MaxLen)
    \cup {<<Hyeo>> \o t \o <<Eong>> : t \in TextsOver(FullAlphabet, ShortLen)}
    \cup {<<Ha, At>> \o t : t \in TextsOver(TokenAlphabet, MaxRun)}
    \cup Fixtures

\* no rational operation is under way
RationalIdle ==
    /\ lhs = 0 /\ rhs = 0 /\ applied = "none" /\ result = 0

\* no method of the stack manager has been called
NotCalled ==
    [name |-> "none", count |-> 0, to |-> 0, heart |-> Nil, result |-> Nil,
     before |-> <<>>, nth |-> 0]

\* no stack manager has been made
ManagerIdle ==
    /\ stacks = <<>> /\ selected = 0 /\ exit_code = None
    /\ stdin = <<>> /\ stdout = <<>> /\ stderr = <<>>
    /\ flushes = 0 /\ panicked = FALSE /\ called = NotCalled

\* no processor has been made
ProcessorIdle ==
    /\ instructions = <<>> /\ position = 0 /\ last_jump = None /\ labels = {}
    /\ returned = None /\ steps = 0 /\ last_step = <<>>

\* Parser::from_str
ParserInit ==
    /\ RationalIdle
    /\ ManagerIdle
    /\ ProcessorIdle
    /\ source \in Texts
    /\ LET first == parse_hangul(source) IN
        /\ code = first.code
        /\ operation_cache = first.op
        /\ token_cache = first.tokens
        /\ cache_span = <<first.from, first.to>>
    /\ yielded = <<>>
    /\ spans = <<>>
    /\ ended = FALSE

\* Parser::next when an operation is cached: returns Some(instruction)
NextSome ==
    /\ operation_cache # None
    /\ LET op      == operation_cache[1]
           next_op == parse_hangul(code)
       IN  /\ operation_cache' = next_op.op
           /\ code' = next_op.code
           /\ token_cache' = next_op.tokens
           /\ cache_span' = <<next_op.from, next_op.to>>
           /\ yielded' = Append(yielded,
                                Instruction_new(op, Dots(next_op.tokens), Hearts(next_op.tokens)))
           /\ spans' = Append(spans, cache_span)
    /\ UNCHANGED <<source, ended>>
    /\ UNCHANGED rationalVars
    /\ UNCHANGED machineVars

\* Parser::next when no operation is cached: returns None
NextNone ==
    /\ operation_cache = None
    /\ ended' = TRUE
    /\ UNCHANGED <<source, code, operation_cache, token_cache, cache_span, yielded, spans>>
    /\ UNCHANGED rationalVars
    /\ UNCHANGED machineVars

-----------------------------------------------------------------------------
(* What the tests of parser.rs expect of their texts *)

\* Instruction::new(Operation::from_single_char(op, count), dots, hearts)
Expect(op_type, count, dots, hearts) ==
    [op |-> [op_type |-> op_type, hangul_count |-> count], dots |-> dots, hearts |-> hearts]

Expected(text) ==
    CASE text = Text_simple -> <<Expect("Push", 2, 3, Nil)>>
      [] text = Text_self_ending ->
            <<Expect("Push", 1, 0, Nil), Expect("Add", 1, 1, Nil),
              Expect("Multiply", 1, 3, Nil), Expect("Reciprocate", 1, 2, Nil),
              Expect("Duplicate", 1, 1, Nil), Expect("Negate", 1, 5, Nil)>>
      [] text = Text_noop -> <<>>
      [] text = Text_very_long_hangul -> <<Expect("Push", 13, 7, Nil)>>
      [] text = Text_xnuk_long -> <<Expect("Push", 12, 0, Nil)>>
      [] text = Text_endless_hangul ->
            <<Expect("Push", 1, 0, Nil), Expect("Add", 2, 3, Nil),
              Expect("Negate", 3, 2, Nil), Expect("Reciprocate", 1, 0, Nil),
              Expect("Duplicate", 2, 6, Nil), Expect("Multiply", 2, 1, Nil)>>
      [] text = Text_triple_dots -> <<Expect("Multiply", 2, 10, Nil)>>
      [] text = Text_hearts_1 ->
            <<Expect("Multiply", 2, 4, <<"Equals", <<"Heart", 0>>, Nil>>)>>
      [] text = Text_hearts_2 ->
            <<Expect("Multiply", 3, 3,
                     <<"LessThan", Nil, <<"Equals", <<"Heart", 0>>, <<"Heart", 3>>>>>>)>>
      [] text = Text_hearts_3 ->
            <<Expect("Multiply", 3, 3,
                     <<"LessThan", <<"Equals", Nil, <<"Heart", 0>>>>, <<"Heart", 3>>>>)>>
      [] text = Text_hearts_4 ->
            <<Expect("Negate", 2, 3, <<"Equals", Nil, <<"Equals", <<"Return">>, Nil>>>>)>>

TestedTexts == Fixtures \ {Text_six_self_ending}

\* the assertions of the tests of parser.rs, lines 301 to 510
TestsPass == (ended /\ source \in TestedTexts) => yielded = Expected(source)


ParserNext == NextSome \/ NextNone

ParserSpec == ParserInit /\ [][ParserNext]_vars

\* Iterator::collect on a fresh parser: every instruction of a text, in order
RECURSIVE CollectFrom(_, _)
CollectFrom(op, rest) ==
    IF op = None THEN <<>>
    ELSE LET next_op == parse_hangul(rest) IN
         <<Instruction_new(op[1], Dots(next_op.tokens), Hearts(next_op.tokens))>>
         \o CollectFrom(next_op.op, next_op.code)

Collect(text) == LET first == parse_hangul(text) IN CollectFrom(first.op, first.code)

-----------------------------------------------------------------------------
(* HyeongRational: NaN, or a ratio num/den in lowest terms with den > 0 *)

NaN == [nan |-> TRUE, num |-> 0, den |-> 1]

Abs(n) == IF n < 0 THEN -n ELSE n

RECURSIVE Gcd(_, _)
Gcd(a, b) == IF b = 0 THEN a ELSE Gcd(b, a % b)

\* Ratio::new: reduces to lowest terms and keeps the denominator positive
Ratio(num, den) ==
    LET g == Gcd(Abs(num), Abs(den))
        s == IF den < 0 THEN -1 ELSE 1
    IN  [nan |-> FALSE, num |-> s * (num \div g), den |-> s * (den \div g)]

\* HyeongRational::from_i64 and its siblings: Ratio::from_integer
from_integer(value) == [nan |-> FALSE, num |-> value, den |-> 1]

\* HyeongRational::is_nan
is_nan(x) == x.nan

\* recip without the test for zero
hr_recip_of_zero(x) ==
    IF x.nan THEN NaN
    ELSE IF x.num = 0 THEN from_integer(0)
    ELSE Ratio(x.den, x.num)

\* HyeongRational::recip
hr_recip(x) ==
    IF x.nan THEN NaN
    ELSE IF x.num = 0 THEN NaN
    ELSE Ratio(x.den, x.num)

\* PartialEq::eq
hr_eq(x, y) ==
    IF is_nan(x) \/ is_nan(y) THEN FALSE
    ELSE x.num * y.den = y.num * x.den

\* PartialOrd::partial_cmp: "None", or the Ordering
hr_partial_cmp(x, y) ==
    IF is_nan(x) \/ is_nan(y) THEN "None"
    ELSE IF x.num * y.den < y.num * x.den THEN "Less"
    ELSE IF x.num * y.den = y.num * x.den THEN "Equal"
    ELSE "Greater"

\* the operator < that PartialOrd derives from partial_cmp
hr_lt(x, y) == hr_partial_cmp(x, y) = "Less"

\* Add::add
hr_add(x, y) ==
    IF is_nan(x) \/ is_nan(y) THEN NaN
    ELSE Ratio(x.num * y.den + y.num * x.den, x.den * y.den)

\* Mul::mul
hr_mul(x, y) ==
    IF is_nan(x) \/ is_nan(y) THEN NaN
    ELSE Ratio(x.num * y.num, x.den * y.den)

\* Neg::neg
hr_neg(x) ==
    IF x.nan THEN NaN ELSE Ratio(-x.num, x.den)

\* the values the operations are applied to
Values ==
    {NaN} \cup {Ratio(n, d) : n \in (-MaxNum)..MaxNum, d \in 1..MaxNum}

ParserIdle ==
    /\ source = <<>> /\ code = <<>> /\ operation_cache = None /\ token_cache = <<>>
    /\ cache_span = <<0, 0>> /\ yielded = <<>> /\ spans = <<>> /\ ended = FALSE

RationalInit ==
    /\ ParserIdle
    /\ ManagerIdle
    /\ ProcessorIdle
    /\ lhs \in Values
    /\ rhs \in Values
    /\ applied = "none"
    /\ result = 0

Apply(name, value) ==
    /\ applied = "none"
    /\ applied' = name
    /\ result' = value
    /\ UNCHANGED <<lhs, rhs>>
    /\ UNCHANGED parserVars
    /\ UNCHANGED machineVars

ApplyEq    == Apply("eq", hr_eq(lhs, rhs))
ApplyCmp   == Apply("partial_cmp", hr_partial_cmp(lhs, rhs))
ApplyLt    == Apply("lt", hr_lt(lhs, rhs))
ApplyAdd   == Apply("add", hr_add(lhs, rhs))
ApplyMul   == Apply("mul", hr_mul(lhs, rhs))
ApplyNeg   == Apply("neg", hr_neg(lhs))
ApplyRecip == Apply("recip", hr_recip(lhs))

RationalNext ==
    ApplyEq \/ ApplyCmp \/ ApplyLt \/ ApplyAdd \/ ApplyMul \/ ApplyNeg \/ ApplyRecip

RationalSpec == RationalInit /\ [][RationalNext]_vars

-----------------------------------------------------------------------------
(* read_codepoint (src/src/utf8.rs).  The result is ok, the scalar value   *)
(* and the bytes left in the reader.                                        *)

\* MASK[char_count], for char_count in 1..3
MASK(char_count) ==
    CASE char_count = 1 -> 31
      [] char_count = 2 -> 15
      [] char_count = 3 -> 7

\* the fold without the mask of the continuation bytes
RECURSIVE FoldContinuation_unmasked(_, _)
FoldContinuation_unmasked(c, buf) ==
    IF buf = <<>> THEN c
    ELSE FoldContinuation_unmasked(c * 64 + Head(buf), Tail(buf))

\* the fold over the continuation bytes: (c << 6) | (b & 0x3f)
RECURSIVE FoldContinuation(_, _)
FoldContinuation(c, buf) ==
    IF buf = <<>> THEN c
    ELSE FoldContinuation(c * 64 + (Head(buf) % 64), Tail(buf))

\* read_codepoint.  A read_exact that meets the end of the reader fails and
\* leaves the reader empty.
read_codepoint(read) ==
    IF read = <<>> THEN [ok |-> FALSE, c |-> 0, read |-> <<>>]
    ELSE LET first_byte == Head(read)
             rest       == Tail(read)
             char_count == CASE first_byte < 128 -> 0
                             [] first_byte >= 192 /\ first_byte < 224 -> 1
                             [] first_byte >= 224 /\ first_byte < 240 -> 2
                             [] first_byte >= 240 /\ first_byte < 248 -> 3
                             [] OTHER -> 4
         IN  IF char_count = 4 THEN [ok |-> FALSE, c |-> 0, read |-> rest]
             ELSE IF char_count = 0 THEN [ok |-> TRUE, c |-> first_byte, read |-> rest]
             ELSE IF Len(rest) < char_count THEN [ok |-> FALSE, c |-> 0, read |-> <<>>]
             ELSE LET buf  == SubSeq(rest, 1, char_count)
                      left == SubSeq(rest, char_count + 1, Len(rest))
                  IN  IF \E p \in 1..char_count : buf[p] < 128 \/ buf[p] >= 192
                      THEN [ok |-> FALSE, c |-> 0, read |-> left]
                      ELSE [ok |-> TRUE,
                            c |-> FoldContinuation(first_byte % (MASK(char_count) + 1), buf),
                            read |-> left]

\* the bytes the readers are made of: an ASCII byte, the two ends of the
\* continuation bytes, a lead byte of each length and a byte that is neither
ByteAlphabet == {97, 128, 191, 194, 226, 240, 248}

\* the readers read_codepoint is called on
ByteTexts == TextsOver(ByteAlphabet, MaxBytes)

\* a reader over a slice of bytes
ReaderInit ==
    /\ ParserIdle
    /\ RationalIdle
    /\ ProcessorIdle
    /\ stacks = <<>> /\ selected = 0 /\ exit_code = None
    /\ stdin \in ByteTexts
    /\ stdout = <<>> /\ stderr = <<>>
    /\ flushes = 0 /\ panicked = FALSE /\ called = NotCalled

\* what a call of read_codepoint leaves: the reader after it, and in called
\* the reader before it and the result, <<"Ok", c>> or <<"Err">>
ReadInto(r) ==
    /\ stdin' = r.read
    /\ called' = [name |-> "read_codepoint", count |-> 0, to |-> 0, heart |-> Nil,
                  result |-> IF r.ok THEN <<"Ok", r.c>> ELSE <<"Err">>,
                  before |-> stdin, nth |-> called.nth + 1]
    /\ UNCHANGED <<stacks, selected, exit_code, stdout, stderr, flushes, panicked>>
    /\ UNCHANGED parserVars
    /\ UNCHANGED rationalVars
    /\ UNCHANGED processorVars

\* read_codepoint(&mut read) on a reader that holds bytes
ReadCodepoint ==
    /\ called.nth < MaxOps
    /\ stdin # <<>>
    /\ ReadInto(read_codepoint(stdin))

\* read_codepoint(&mut read) on a reader at its end
ReadAtEnd ==
    /\ called.nth < MaxOps
    /\ stdin = <<>>
    /\ ReadInto(read_codepoint(stdin))

ReaderNext == ReadCodepoint \/ ReadAtEnd

ReaderSpec == ReaderInit /\ [][ReaderNext]_vars

\* the test codepoint_from_slice
Test_codepoint_from_slice ==
    /\ read_codepoint(<<97>>).ok /\ read_codepoint(<<97>>).c = 97
    /\ read_codepoint(<<194, 162>>).ok /\ read_codepoint(<<194, 162>>).c = 162
    /\ read_codepoint(<<226, 130, 172>>).ok /\ read_codepoint(<<226, 130, 172>>).c = 8364
    /\ read_codepoint(<<240, 144, 141, 136>>).ok
    /\ read_codepoint(<<240, 144, 141, 136>>).c = 66376

-----------------------------------------------------------------------------
(* Display for HyeongRational (src/src/rational.rs): the characters written, *)
(* or the panic of the unwrap.                                               *)

\* the text written for NaN and for an integer part beyond Unicode
TooBigText == <<45320, 47924, 32, 52964, 50631, 46, 46, 46>>

\* the decimal digits of a natural number, as characters
RECURSIVE Digits(_)
Digits(n) == IF n < 10 THEN <<48 + n>> ELSE Digits(n \div 10) \o <<48 + (n % 10)>>

\* r.floor().to_integer()
Floor(x) == x.num \div x.den

\* char::from_u32: None for a surrogate
IsChar(int) == int < 55296 \/ int > 57343

\* Display::fmt
Display(value) ==
    IF value.nan THEN [panic |-> FALSE, text |-> TooBigText]
    ELSE LET int == Floor(value) IN
         IF int >= 0
         THEN IF int >= 1114112 THEN [panic |-> FALSE, text |-> TooBigText]
              ELSE IF IsChar(int) THEN [panic |-> FALSE, text |-> <<int>>]
              ELSE [panic |-> TRUE, text |-> <<>>]
         ELSE [panic |-> FALSE, text |-> Digits(-int)]

\* the integer parts the values written lie around: the ends of the ranges of
\* the characters, of the surrogates and of Unicode
RenderInts == {-32, -2, -1, 0, 65, 55295, 55296, 57343, 57344, 1114111, 1114112}

\* the values Display::fmt is applied to
RenderValues ==
    Values \cup {Ratio(i * d + k, d) : i \in RenderInts, d \in 1..MaxNum, k \in 0..MaxNum}

RenderInit ==
    /\ ParserIdle
    /\ ManagerIdle
    /\ ProcessorIdle
    /\ lhs \in RenderValues
    /\ rhs = 0
    /\ applied = "none"
    /\ result = 0

\* write!(w, "{}", value) once
ApplyDisplay == Apply("display", Display(lhs))

\* the value is written once more, to a second writer
ApplyDisplayAgain ==
    /\ applied = "display"
    /\ applied' = "display again"
    /\ result' = Display(lhs)
    /\ UNCHANGED <<lhs, rhs>>
    /\ UNCHANGED parserVars
    /\ UNCHANGED machineVars

RenderNext == ApplyDisplay \/ ApplyDisplayAgain

RenderSpec == RenderInit /\ [][RenderNext]_vars

-----------------------------------------------------------------------------
(* StackManager (src/src/stack.rs).  A manager is the record of its fields  *)
(* and of the reader and the two writers its stacks 0, 1 and 2 hold.  Once  *)
(* a panic has happened nothing more is done.                               *)

\* push_one ending what it writes to the stacks 1 and 2 with a newline
push_one_line(m, id, value) ==
    IF m.panicked THEN m
    ELSE IF id \notin DOMAIN m.stacks THEN [m EXCEPT !.panicked = TRUE]
    ELSE IF id \in {1, 2}
    THEN LET written == Display(value) IN
         IF written.panic THEN [m EXCEPT !.panicked = TRUE]
         ELSE IF id = 1 THEN [m EXCEPT !.stdout = @ \o written.text \o <<10>>]
         ELSE [m EXCEPT !.stderr = @ \o written.text \o <<10>>]
    ELSE [m EXCEPT !.stacks[id] = Append(@, value)]

\* HyeongStack::push_one of the stack with that id: a write for the stacks 1
\* and 2, a push onto the vector for the others
push_one(m, id, value) ==
    IF m.panicked THEN m
    ELSE IF id \notin DOMAIN m.stacks THEN [m EXCEPT !.panicked = TRUE]
    ELSE IF id \in {1, 2}
    THEN LET written == Display(value) IN
         IF written.panic THEN [m EXCEPT !.panicked = TRUE]
         ELSE IF id = 1 THEN [m EXCEPT !.stdout = @ \o written.text]
         ELSE [m EXCEPT !.stderr = @ \o written.text]
    ELSE [m EXCEPT !.stacks[id] = Append(@, value)]

\* pop_one taking the oldest value of the vector
pop_one_oldest(m, id) ==
    IF m.panicked THEN [m |-> m, value |-> NaN]
    ELSE IF id \notin DOMAIN m.stacks THEN [m |-> [m EXCEPT !.panicked = TRUE], value |-> NaN]
    ELSE IF id \in {1, 2} THEN [m |-> m, value |-> NaN]
    ELSE IF m.stacks[id] # <<>>
    THEN [m |-> [m EXCEPT !.stacks[id] = Tail(@)], value |-> Head(m.stacks[id])]
    ELSE IF id = 0
    THEN LET r == read_codepoint(m.stdin) IN
         [m |-> [m EXCEPT !.stdin = r.read],
          value |-> IF r.ok THEN from_integer(r.c) ELSE NaN]
    ELSE [m |-> m, value |-> NaN]

\* HyeongStack::pop_one of the stack with that id: NaN for the stacks 1 and 2,
\* the reader of stack 0 when its vector is empty, Vec::pop().into() otherwise
pop_one(m, id) ==
    IF m.panicked THEN [m |-> m, value |-> NaN]
    ELSE IF id \notin DOMAIN m.stacks THEN [m |-> [m EXCEPT !.panicked = TRUE], value |-> NaN]
    ELSE IF id \in {1, 2} THEN [m |-> m, value |-> NaN]
    ELSE IF m.stacks[id] # <<>>
    THEN [m |-> [m EXCEPT !.stacks[id] = Front(@)], value |-> Last(m.stacks[id])]
    ELSE IF id = 0
    THEN LET r == read_codepoint(m.stdin) IN
         [m |-> [m EXCEPT !.stdin = r.read],
          value |-> IF r.ok THEN from_integer(r.c) ELSE NaN]
    ELSE [m |-> m, value |-> NaN]

\* make_stack selecting the stack it makes
make_stack_selecting(m, id) ==
    IF id \in DOMAIN m.stacks THEN m
    ELSE [m EXCEPT !.stacks = [i \in DOMAIN m.stacks \cup {id} |->
                                  IF i = id THEN <<>> ELSE m.stacks[i]],
                   !.selected = id]

\* StackManager::make_stack
make_stack(m, id) ==
    IF id \in DOMAIN m.stacks THEN m
    ELSE [m EXCEPT !.stacks = [i \in DOMAIN m.stacks \cup {id} |->
                                  IF i = id THEN <<>> ELSE m.stacks[i]]]

\* select without making the stack
select_only(m, id) == [m EXCEPT !.selected = id]

\* StackManager::select
select(m, id) == [make_stack(m, id) EXCEPT !.selected = id]

\* StackManager::from_stacks over a reader holding the bytes read
from_stacks(read) ==
    select([stacks |-> [i \in {0, 1, 2} |-> <<>>], selected |-> 0, exit_code |-> None,
            stdin |-> read, stdout |-> <<>>, stderr |-> <<>>,
            flushes |-> 0, panicked |-> FALSE],
           3)

\* check_exit looking at stack 1 only
check_exit_stdout_only(m) ==
    IF m.selected = 1 THEN [m |-> [m EXCEPT !.exit_code = Some(0)], exit |-> TRUE]
    ELSE [m |-> m, exit |-> FALSE]

\* StackManager::check_exit
check_exit(m) ==
    IF m.selected = 1 THEN [m |-> [m EXCEPT !.exit_code = Some(0)], exit |-> TRUE]
    ELSE IF m.selected = 2 THEN [m |-> [m EXCEPT !.exit_code = Some(1)], exit |-> TRUE]
    ELSE [m |-> m, exit |-> FALSE]

\* push with the exit check of the other operations
push_checking(m, hangul, dots) ==
    IF check_exit(m).exit THEN check_exit(m).m
    ELSE push_one(m, m.selected, from_integer(hangul * dots))

\* StackManager::push
push(m, hangul, dots) == push_one(m, m.selected, from_integer(hangul * dots))

\* for _ in 0..count: pop_one; the values in the order they were popped
RECURSIVE PopMany(_, _, _)
PopMany(m, id, count) ==
    IF count = 0 THEN [m |-> m, values |-> <<>>]
    ELSE LET p == pop_one(m, id)
             r == PopMany(p.m, id, count - 1)
         IN  [m |-> r.m, values |-> <<p.value>> \o r.values]

\* the values pushed back from the front of temp: the first popped goes in
\* first
RECURSIVE PushBack_from_front(_, _, _)
PushBack_from_front(m, id, temp) ==
    IF temp = <<>> THEN m
    ELSE PushBack_from_front(push_one(m, id, Head(temp)), id, Tail(temp))

\* while let Some(r) = temp.next_back(): push_one(r)
RECURSIVE PushBack(_, _, _)
PushBack(m, id, temp) ==
    IF temp = <<>> THEN m
    ELSE PushBack(push_one(m, id, Last(temp)), id, Front(temp))

\* one copy pushed, whatever the count
PushCopies_once(m, id, value, count) ==
    IF count = 0 THEN m ELSE push_one(m, id, value)

\* for _ in 0..count: push_one(value)
RECURSIVE PushCopies(_, _, _, _)
PushCopies(m, id, value, count) ==
    IF count = 0 THEN m
    ELSE PushCopies(push_one(m, id, value), id, value, count - 1)

\* the sum of the values, from the left, starting with sum
RECURSIVE FoldAdd(_, _)
FoldAdd(sum, values) ==
    IF values = <<>> THEN sum ELSE FoldAdd(hr_add(sum, Head(values)), Tail(values))

\* the product of the values, from the left, starting with sum
RECURSIVE FoldMul(_, _)
FoldMul(sum, values) ==
    IF values = <<>> THEN sum ELSE FoldMul(hr_mul(sum, Head(values)), Tail(values))

\* add with the exit check looking at the target
add_checking_target(m, count, to) ==
    IF to = 1 THEN [m EXCEPT !.exit_code = Some(0)]
    ELSE IF to = 2 THEN [m EXCEPT !.exit_code = Some(1)]
    ELSE LET p == PopMany(m, m.selected, count)
         IN  push_one(make_stack(p.m, to), to, FoldAdd(from_integer(0), p.values))

\* StackManager::add
add(m, count, to) ==
    IF check_exit(m).exit THEN check_exit(m).m
    ELSE LET p == PopMany(m, m.selected, count)
         IN  push_one(make_stack(p.m, to), to, FoldAdd(from_integer(0), p.values))

\* mul with the product started from 0, as the sum of add is
mul_from_zero(m, count, to) ==
    IF check_exit(m).exit THEN check_exit(m).m
    ELSE LET p == PopMany(m, m.selected, count)
         IN  push_one(make_stack(p.m, to), to, FoldMul(from_integer(0), p.values))

\* StackManager::mul
mul(m, count, to) ==
    IF check_exit(m).exit THEN check_exit(m).m
    ELSE LET p == PopMany(m, m.selected, count)
         IN  push_one(make_stack(p.m, to), to, FoldMul(from_integer(1), p.values))

\* neg with the exit check looking at the target too
neg_checking_target(m, count, to) ==
    IF check_exit(m).exit THEN check_exit(m).m
    ELSE IF to = 1 THEN [m EXCEPT !.exit_code = Some(0)]
    ELSE IF to = 2 THEN [m EXCEPT !.exit_code = Some(1)]
    ELSE LET p    == PopMany(m, m.selected, count)
             temp == [j \in 1..Len(p.values) |-> hr_neg(p.values[j])]
             back == PushBack(p.m, m.selected, temp)
         IN  push_one(make_stack(back, to), to, FoldAdd(from_integer(0), temp))

\* StackManager::neg
neg(m, count, to) ==
    IF check_exit(m).exit THEN check_exit(m).m
    ELSE LET p    == PopMany(m, m.selected, count)
             temp == [j \in 1..Len(p.values) |-> hr_neg(p.values[j])]
             back == PushBack(p.m, m.selected, temp)
         IN  push_one(make_stack(back, to), to, FoldAdd(from_integer(0), temp))

\* recip without the exit check
recip_unchecked(m, count, to) ==
    LET p    == PopMany(m, m.selected, count)
        temp == [j \in 1..Len(p.values) |-> hr_recip(p.values[j])]
        back == PushBack(p.m, m.selected, temp)
    IN  push_one(make_stack(back, to), to, FoldMul(from_integer(1), temp))

\* StackManager::recip
recip(m, count, to) ==
    IF check_exit(m).exit THEN check_exit(m).m
    ELSE LET p    == PopMany(m, m.selected, count)
             temp == [j \in 1..Len(p.values) |-> hr_recip(p.values[j])]
             back == PushBack(p.m, m.selected, temp)
         IN  push_one(make_stack(back, to), to, FoldMul(from_integer(1), temp))

\* duplicate without the exit check
duplicate_unchecked(m, count, into) ==
    LET p    == pop_one(m, m.selected)
        back == push_one(p.m, m.selected, p.value)
        to   == select(back, into)
    IN  PushCopies(to, to.selected, p.value, count)

\* StackManager::duplicate
duplicate(m, count, into) ==
    IF check_exit(m).exit THEN check_exit(m).m
    ELSE LET p    == pop_one(m, m.selected)
             back == push_one(p.m, m.selected, p.value)
             to   == select(back, into)
         IN  PushCopies(to, to.selected, p.value, count)

\* stack_less_than holding for a value equal to the target too
stack_less_or_equal(m, target) ==
    LET p == pop_one(m, m.selected)
    IN  [m |-> p.m, holds |-> hr_lt(p.value, from_integer(target))
                              \/ hr_eq(p.value, from_integer(target))]

\* StackManager::stack_less_than
stack_less_than(m, target) ==
    LET p == pop_one(m, m.selected)
    IN  [m |-> p.m, holds |-> hr_lt(p.value, from_integer(target))]

\* StackManager::stack_equals
stack_equals(m, target) ==
    LET p == pop_one(m, m.selected)
    IN  [m |-> p.m, holds |-> hr_eq(p.value, from_integer(target))]

\* StackManager::process_hearts; the result is <<"Heart", id>>, <<"Return">>
\* or <<"Nil">>
RECURSIVE process_hearts(_, _, _)
process_hearts(m, heart, target) ==
    CASE heart[1] = "LessThan" ->
            LET c == stack_less_than(m, target)
            IN  process_hearts(c.m, IF c.holds THEN heart[2] ELSE heart[3], target)
      [] heart[1] = "Equals" ->
            LET c == stack_equals(m, target)
            IN  process_hearts(c.m, IF c.holds THEN heart[2] ELSE heart[3], target)
      [] OTHER -> [m |-> m, result |-> heart]

\* StackManager::flush.  fails is the set of the stacks whose writer fails this
\* flush; the writer of stack 2 is not flushed once that of stack 1 has failed.
\* The result is <<"Ok">> or <<"Err", id>>, the error of the writer of stack id.
flush(m, fails) ==
    [m |-> [m EXCEPT !.flushes = @ + 1],
     result |-> IF 1 \in fails THEN <<"Err", 1>>
                ELSE IF 2 \in fails THEN <<"Err", 2>>
                ELSE <<"Ok">>]

\* StackManager::exit_code
exit_code_of(m) == m.exit_code

-----------------------------------------------------------------------------
(* The stack manager as a state machine: any sequence of its methods *)

\* the manager the variables hold
Manager ==
    [stacks |-> stacks, selected |-> selected, exit_code |-> exit_code,
     stdin |-> stdin, stdout |-> stdout, stderr |-> stderr,
     flushes |-> flushes, panicked |-> panicked]

\* the variables take the fields of the manager
SetManager(m) ==
    /\ stacks' = m.stacks
    /\ selected' = m.selected
    /\ exit_code' = m.exit_code
    /\ stdin' = m.stdin
    /\ stdout' = m.stdout
    /\ stderr' = m.stderr
    /\ flushes' = m.flushes
    /\ panicked' = m.panicked

\* the bytes the reader of stack 0 holds at first
StdinInputs == {<<>>, <<65, 226, 153, 165>>}

\* the arguments push is called with: (hangul, dots)
PushArgs == {<<1, 0>>, <<1, 1>>, <<2, 1>>}
\* the arguments add, mul, neg and recip are called with: (count, to)
ArithArgs == {<<1, 1>>, <<2, 2>>, <<2, 0>>, <<1, 4>>, <<1, 3>>, <<2, 1>>}
\* the arguments duplicate is called with: (count, into)
DupArgs == {<<1, 1>>, <<2, 2>>, <<1, 0>>, <<1, 4>>, <<1, 2>>, <<2, 3>>}
\* the writers that may fail one flush
FlushFaults == {{}, {1}, {2}}
\* the arguments process_hearts is called with: (heart, target)
HeartArgs ==
    {<<<<"Heart", 0>>, 1>>,
     <<<<"LessThan", <<"Heart", 0>>, <<"Return">>>>, 1>>,
     <<<<"Equals", Nil, <<"LessThan", <<"Heart", 1>>, <<"Return">>>>>>, 1>>,
     <<<<"Equals", <<"LessThan", <<"Heart", 0>>, Nil>>, <<"Return">>>>, 1>>}

StackInit ==
    /\ ParserIdle
    /\ RationalIdle
    /\ ProcessorIdle
    /\ \E read \in StdinInputs :
          LET m == from_stacks(read) IN
          /\ stacks = m.stacks
          /\ selected = m.selected
          /\ exit_code = m.exit_code
          /\ stdin = m.stdin
          /\ stdout = m.stdout
          /\ stderr = m.stderr
          /\ flushes = m.flushes
          /\ panicked = m.panicked
    /\ called = NotCalled

\* one call of a method of the manager, from outside
Call(name, count, to, heart, r) ==
    /\ ~panicked
    /\ called.nth < MaxOps
    /\ SetManager(r.m)
    /\ called' = [name |-> name, count |-> count, to |-> to, heart |-> heart,
                  result |-> r.result, before |-> Manager, nth |-> called.nth + 1]
    /\ UNCHANGED parserVars
    /\ UNCHANGED rationalVars
    /\ UNCHANGED processorVars

CallPush ==
    \E a \in PushArgs :
        Call("push", a[1], a[2], Nil, [m |-> push(Manager, a[1], a[2]), result |-> Nil])

CallAdd ==
    \E a \in ArithArgs :
        Call("add", a[1], a[2], Nil, [m |-> add(Manager, a[1], a[2]), result |-> Nil])

CallMul ==
    \E a \in ArithArgs :
        Call("mul", a[1], a[2], Nil, [m |-> mul(Manager, a[1], a[2]), result |-> Nil])

CallNeg ==
    \E a \in ArithArgs :
        Call("neg", a[1], a[2], Nil, [m |-> neg(Manager, a[1], a[2]), result |-> Nil])

CallRecip ==
    \E a \in ArithArgs :
        Call("recip", a[1], a[2], Nil, [m |-> recip(Manager, a[1], a[2]), result |-> Nil])

CallDuplicate ==
    \E a \in DupArgs :
        Call("duplicate", a[1], a[2], Nil,
             [m |-> duplicate(Manager, a[1], a[2]), result |-> Nil])

CallProcessHearts ==
    \E a \in HeartArgs :
        Call("process_hearts", 0, a[2], a[1], process_hearts(Manager, a[1], a[2]))

CallFlush ==
    \E fails \in FlushFaults :
        Call("flush", 0, 0, Nil, flush(Manager, fails))

StackNext ==
    \/ CallPush \/ CallAdd \/ CallMul \/ CallNeg \/ CallRecip
    \/ CallDuplicate \/ CallProcessHearts \/ CallFlush

StackSpec == StackInit /\ [][StackNext]_vars

-----------------------------------------------------------------------------
(* What the tests of stack.rs expect *)

\* tests::stack_manager_push_duplicate
Test_push_duplicate ==
    LET m0 == from_stacks(<<>>)
        m1 == push(m0, 5, 13)
        m2 == duplicate(m1, 3, 1)
    IN  m2.stdout = <<65, 65, 65>>

\* tests::stack_manager_add_mul
Test_add_mul ==
    LET m0  == from_stacks(<<65>>)
        m1  == duplicate(m0, 1, 0)
        m2  == add(m1, 1, 2)
        m3  == add(m2, 1, 1)
        m4  == push(m3, 1, 1)
        m5  == push(m4, 1, 7)
        m6  == push(m5, 2, 2)
        m7  == push(m6, 1, 13)
        m8  == push(m7, 3, 9)
        m9  == mul(m8, 4, 0)
        m10 == add(m9, 2, 2)
    IN  m10.stdout = <<65>> /\ m10.stderr = TooBigText \o <<9829>>

\* tests::stack_manager_mul_recip
Test_mul_recip ==
    LET m0  == from_stacks(<<235, 176, 175, 235, 167, 157, 237, 157, 172>>)
        m1  == push(m0, 4, 2)
        m2  == push(m1, 2, 3)
        m3  == recip(m2, 1, 4)
        m4  == mul(m3, 2, 3)
        m5  == neg(m4, 1, 2)
        m6  == push(m5, 1, 0)
        m7  == duplicate(m6, 1, 0)
        m8  == neg(m7, 5, 2)
        m9  == add(m8, 1, 4)
        m10 == add(m9, 1, 1)
        m11 == add(m10, 1, 1)
        m12 == add(m11, 1, 1)
    IN  /\ m12.stdout = <<52, 56, 49, 55, 53, 52, 55, 53, 56, 49, 53, 53, 49, 52, 56>>
        /\ m12.stderr = <<50>> \o TooBigText

\* tests::read_stack_pop, on the reader of stack 0
Test_read_stack_pop ==
    LET m0 == select(from_stacks(<<237, 149, 152, 236, 149, 151, 46, 46, 46, 240, 159, 146, 149>>), 0)
        p1 == pop_one(m0, 0)
        p2 == pop_one(p1.m, 0)
        p3 == pop_one(p2.m, 0)
        m4 == push_one(p3.m, 0, from_integer(14))
        p5 == pop_one(m4, 0)
        p6 == pop_one(p5.m, 0)
        p7 == pop_one(p6.m, 0)
        p8 == pop_one(p7.m, 0)
        p9 == pop_one(p8.m, 0)
    IN  /\ p1.value = from_integer(Ha) /\ p2.value = from_integer(At)
        /\ p3.value = from_integer(46) /\ p5.value = from_integer(14)
        /\ p6.value = from_integer(46) /\ p7.value = from_integer(46)
        /\ p8.value = from_integer(128149) /\ is_nan(p9.value)

\* tests::write_stack_push, on the writer of stack 1
Test_write_stack_push ==
    LET m0 == from_stacks(<<>>)
        m1 == push_one(m0, 1, from_integer(Heuk))
        m2 == push_one(m1, 1, from_integer(46))
        m3 == push_one(m2, 1, from_integer(46))
        m4 == push_one(m3, 1, from_integer(33))
        m5 == push_one(m4, 1, from_integer(-32))
        m6 == push_one(m5, 1, NaN)
        m7 == push_one(m6, 1, Ratio(65 * 3 + 2, 3))
        m8 == push_one(m7, 1, Ratio(-11, 7))
    IN  m8.stdout = <<Heuk, 46, 46, 33, 51, 50>> \o TooBigText \o <<65, 50>>

\* the tests of stack.rs pass
StackTestsPass ==
    /\ Test_push_duplicate /\ Test_add_mul /\ Test_mul_recip
    /\ Test_read_stack_pop /\ Test_write_stack_push

-----------------------------------------------------------------------------
(* HyeongReadStack on its own: the stack 0 of a manager, pushed and popped *)
(* directly as the test read_stack_pop does                                *)

\* the bytes the reader of the read stack holds at first: nothing, an ASCII
\* byte and a scalar of 3 bytes, a scalar cut short, a byte of no pattern
\* before an ASCII byte
ReadStackInputs == {<<>>, <<65, 226, 153, 165>>, <<226, 153>>, <<128, 65>>}

\* the values pushed onto the read stack
ReadStackValues == {from_integer(7), Ratio(1, 2)}

\* HyeongReadStack::new
ReadStackInit ==
    /\ ParserIdle
    /\ RationalIdle
    /\ ProcessorIdle
    /\ \E read \in ReadStackInputs :
          LET m == from_stacks(read) IN
          /\ stacks = m.stacks
          /\ selected = m.selected
          /\ exit_code = m.exit_code
          /\ stdin = m.stdin
          /\ stdout = m.stdout
          /\ stderr = m.stderr
          /\ flushes = m.flushes
          /\ panicked = m.panicked
    /\ called = NotCalled

\* one call of a method of the read stack; value is what was pushed or popped
StackZeroCall(name, m, value) ==
    /\ called.nth < MaxStackOps
    /\ SetManager(m)
    /\ called' = [name |-> name, count |-> 0, to |-> 0, heart |-> Nil,
                  result |-> value, before |-> Manager, nth |-> called.nth + 1]
    /\ UNCHANGED parserVars
    /\ UNCHANGED rationalVars
    /\ UNCHANGED processorVars

\* HyeongReadStack::push_one
StackZeroPush ==
    \E value \in ReadStackValues :
        StackZeroCall("push_one", push_one(Manager, 0, value), value)

\* HyeongReadStack::pop_one
StackZeroPop ==
    StackZeroCall("pop_one", pop_one(Manager, 0).m, pop_one(Manager, 0).value)

ReadStackNext == StackZeroPush \/ StackZeroPop

ReadStackSpec == ReadStackInit /\ [][ReadStackNext]_vars

-----------------------------------------------------------------------------
(* Processor (src/src/processor.rs).  Its inner iterator is the parser, held *)
(* in the parser's variables; labels is the set of the entries               *)
(* <<label, position>> of the map, a label being <<param, id>>.              *)

\* Instruction::hangul_times_dots
hangul_times_dots(instr) == instr.op.hangul_count * instr.dots

\* the match on the operation type writing the parameter of the instruction
\* to the selected stack before the operation runs
Dispatch_writing(m, instr) ==
    LET w == push(m, instr.op.hangul_count, instr.dots) IN
    CASE instr.op.op_type = "Push"        -> w
      [] instr.op.op_type = "Add"         -> add(w, instr.op.hangul_count, instr.dots)
      [] instr.op.op_type = "Multiply"    -> mul(w, instr.op.hangul_count, instr.dots)
      [] instr.op.op_type = "Negate"      -> neg(w, instr.op.hangul_count, instr.dots)
      [] instr.op.op_type = "Reciprocate" -> recip(w, instr.op.hangul_count, instr.dots)
      [] instr.op.op_type = "Duplicate"   -> duplicate(w, instr.op.hangul_count, instr.dots)
      [] OTHER                            -> [m EXCEPT !.panicked = TRUE]

\* the match on the operation type, calling the stack manager; the call of
\* dup is the method duplicate of stack.rs
Dispatch(m, instr) ==
    CASE instr.op.op_type = "Push"        -> push(m, instr.op.hangul_count, instr.dots)
      [] instr.op.op_type = "Add"         -> add(m, instr.op.hangul_count, instr.dots)
      [] instr.op.op_type = "Multiply"    -> mul(m, instr.op.hangul_count, instr.dots)
      [] instr.op.op_type = "Negate"      -> neg(m, instr.op.hangul_count, instr.dots)
      [] instr.op.op_type = "Reciprocate" -> recip(m, instr.op.hangul_count, instr.dots)
      [] instr.op.op_type = "Duplicate"   -> duplicate(m, instr.op.hangul_count, instr.dots)
      [] OTHER                            -> [m EXCEPT !.panicked = TRUE]

\* the label made of the dots alone
LabelOf_dots(instr, id) == <<instr.dots, id>>

\* let label = (param, id)
LabelOf(instr, id) == <<hangul_times_dots(instr), id>>

\* the map has an entry for the label
HasLabel(table, label) == \E e \in table : e[1] = label

\* the position the map binds the label to
BoundTo(table, label) == (CHOOSE e \in table : e[1] = label)[2]

\* HashMap::insert: the label is bound to this position, whatever it was bound to
insert_overwriting(table, label, pos) ==
    {e \in table : e[1] # label} \cup {<<label, pos>>}

\* labels.entry(label).or_insert(position): the map afterwards
or_insert(table, label, pos) ==
    IF HasLabel(table, label) THEN table ELSE table \cup {<<label, pos>>}

\* the Return arm taking the value out of last_jump
OnReturn_taking(pos, jump) ==
    IF jump # None THEN [position |-> jump[1], last_jump |-> None]
    ELSE [position |-> pos + 1, last_jump |-> jump]

\* the arm of HeartResult::Return
OnReturn(pos, jump) ==
    IF jump # None THEN [position |-> jump[1], last_jump |-> jump]
    ELSE [position |-> pos + 1, last_jump |-> jump]

\* the arm of HeartResult::Heart(id)
OnHeart(instr, id, pos, jump, table) ==
    LET label == LabelOf(instr, id)
        after == or_insert(table, label, pos)
        next  == BoundTo(after, label)
    IN  IF next # pos
        THEN [position |-> next, last_jump |-> Some(pos), labels |-> after, jumped |-> TRUE]
        ELSE [position |-> pos + 1, last_jump |-> jump, labels |-> after, jumped |-> FALSE]

\* the match on the result of process_hearts
Control(instr, res, pos, jump, table) ==
    CASE res[1] = "Heart" -> OnHeart(instr, res[2], pos, jump, table)
      [] res[1] = "Return" ->
            [position |-> OnReturn(pos, jump).position,
             last_jump |-> OnReturn(pos, jump).last_jump,
             labels |-> table, jumped |-> FALSE]
      [] OTHER -> [position |-> pos + 1, last_jump |-> jump, labels |-> table, jumped |-> FALSE]

\* what advance returns, were it always the exit code 0 once one is set
advance_returns_zero(m) == IF m.exit_code = None THEN None ELSE Some(0)

\* what advance returns: self.stacks.exit_code()
advance_returns(m) == exit_code_of(m)

\* Drop for Processor: flush().unwrap()
drop(m, fails) ==
    LET f == flush(m, fails)
    IN  IF f.result = <<"Ok">> THEN f.m ELSE [f.m EXCEPT !.panicked = TRUE]

\* the position after the fetch found the parser exhausted, left where it was
WrapTo_end(pos) == pos

\* None => self.position = 0
WrapTo(pos) == 0

\* the program texts: the instructions they are made of
Snippets ==
    {<<Hyeong, 46>>,                          \* push 1
     <<Heuk, 46>>,                            \* duplicate into stack 1
     <<Heuk, 46, 46>>,                        \* duplicate into stack 2
     <<Hang>>,                                \* add into stack 0
     <<Heut>>,                                \* negate into stack 0
     <<Heup, 46, 46, 46>>,                    \* reciprocate into stack 3
     <<Hyeong, 9825>>,                        \* push 0, return
     <<Hyeong, 46, 9829>>,                    \* push 1, heart 0
     <<Hyeo, Eong, 46, 9829>>,                \* push 2, heart 0
     <<Hyeong, 46, 46, 9829>>,                \* push 2, heart 0
     <<Hat, 46, 46, 46, 9829, 33, 9825>>}     \* multiply into stack 3, heart 0 or return

\* every text made of up to n of the snippets
RECURSIVE ProgramsOf(_)
ProgramsOf(n) ==
    IF n = 0 THEN {<<>>}
    ELSE LET shorter == ProgramsOf(n - 1)
         IN  shorter \cup {p \o s : p \in shorter, s \in Snippets}

\* a program that jumps from position 5, then from position 6, and then returns
Program_two_jumps ==
    <<Hyeong>> \o <<Hyeong, 46, 46, 46>> \o <<Hyeong>> \o <<Hyeong, 46, 46, 46>>
    \o <<Hat, 46, 46, 46, 9829>>
    \o <<Hat, 46, 46, 46, 9829, 33>>
    \o <<Hat, 46, 46, 46, 9829, 33, 9825>>

\* a program whose second instruction, a duplicate of count 2 and 4 dots,
\* selects stack 4 and compares with 8
Program_select_compare ==
    <<Hyeo, Eong, 46, 46, 46, 46>> \o <<Heu, Euk, 46, 46, 46, 46, 9829, 33, 9825>>

Programs == ProgramsOf(MaxInstr) \cup {Program_two_jumps, Program_select_compare}

\* nothing has been done yet by advance.  origins lists the positions advance
\* has jumped from, returns counts the Return results since the last jump.
NoStep ==
    [position |-> 0, fetched |-> FALSE, wrapped |-> FALSE, executed |-> FALSE,
     instr |-> Instruction_new(PanicOp, 0, Nil), result |-> Nil, jumped |-> FALSE,
     before |-> <<>>, origins |-> <<>>, returns |-> 0,
     run_flush |-> <<"None">>, drop_fails |-> {}]

\* Parser::from_str, StackManager::from_stacks and Processor::with_stack_manager
ProcessorInit ==
    /\ RationalIdle
    /\ source \in Programs
    /\ LET first == parse_hangul(source) IN
        /\ code = first.code
        /\ operation_cache = first.op
        /\ token_cache = first.tokens
        /\ cache_span = <<first.from, first.to>>
    /\ yielded = <<>>
    /\ spans = <<>>
    /\ ended = FALSE
    /\ \E read \in StdinInputs :
          LET m == from_stacks(read) IN
          /\ stacks = m.stacks
          /\ selected = m.selected
          /\ exit_code = m.exit_code
          /\ stdin = m.stdin
          /\ stdout = m.stdout
          /\ stderr = m.stderr
          /\ flushes = m.flushes
          /\ panicked = m.panicked
    /\ called = NotCalled
    /\ instructions = <<>>
    /\ position = 0
    /\ last_jump = None
    /\ labels = {}
    /\ returned = None
    /\ steps = 0
    /\ last_step = NoStep

\* the processor before the step
Before ==
    [instructions |-> instructions, position |-> position, last_jump |-> last_jump,
     labels |-> labels, ended |-> ended, manager |-> Manager]

\* what advance leaves in last_step
StepRecord(pos, fetched, wrapped, executed, instr, res, jumped) ==
    [position |-> pos, fetched |-> fetched, wrapped |-> wrapped, executed |-> executed,
     instr |-> instr, result |-> res, jumped |-> jumped, before |-> Before,
     origins |-> IF jumped THEN Append(last_step.origins, pos) ELSE last_step.origins,
     returns |-> IF jumped THEN 0
                 ELSE IF executed /\ res = <<"Return">> THEN last_step.returns + 1
                 ELSE last_step.returns,
     run_flush |-> <<"None">>, drop_fails |-> {}]

\* a panic inside advance: the unwinding drops the processor, and whatever
\* the flush of the drop gives the panic stays
Panic(m, pos, fetched, wrapped, instr) ==
    /\ SetManager([drop(m, {}) EXCEPT !.panicked = TRUE])
    /\ position' = pos
    /\ UNCHANGED <<last_jump, labels, returned>>
    /\ last_step' = StepRecord(pos, fetched, wrapped, FALSE, instr, Nil, FALSE)

\* return (x, self.stacks.flush()): the pair is made with the result of
\* flush, then the processor, a local of run, is dropped; a panic of the drop
\* unwinds out of run and the pair never reaches the caller
Return(m, x, step, run_fails, drop_fails) ==
    /\ SetManager(drop(flush(m, run_fails).m, drop_fails))
    /\ returned' = IF drop_fails # {} THEN None
                   ELSE Some([code |-> x, flush |-> flush(m, run_fails).result])
    /\ last_step' = [step EXCEPT !.run_flush = flush(m, run_fails).result,
                                 !.drop_fails = drop_fails]

\* the end of advance and of the turn of the loop of run: the match on the
\* result of process_hearts, then the return of run if advance returns a code
Finish(pos, fetched, wrapped, instr, h, c, x) ==
    /\ position' = c.position
    /\ last_jump' = c.last_jump
    /\ labels' = c.labels
    /\ IF x # None
       THEN \E run_fails \in FlushFaults : \E drop_fails \in FlushFaults :
                Return(h.m, x[1],
                       StepRecord(pos, fetched, wrapped, TRUE, instr, h.result, c.jumped),
                       run_fails, drop_fails)
       ELSE /\ returned' = returned
            /\ SetManager(h.m)
            /\ last_step' = StepRecord(pos, fetched, wrapped, TRUE, instr, h.result, c.jumped)

\* advance after the stack manager has run the operation and the heart tree
AfterHearts(pos, fetched, wrapped, instr, h) ==
    IF h.m.panicked
    THEN Panic(h.m, pos, fetched, wrapped, instr)
    ELSE Finish(pos, fetched, wrapped, instr, h,
                Control(instr, h.result, pos, last_jump, labels), advance_returns(h.m))

\* advance evaluating the heart tree before it runs the operation
OnInstruction_hearts_first(pos, fetched, wrapped, instr) ==
    AfterHearts(pos, fetched, wrapped, instr,
                [m |-> Dispatch(process_hearts(Manager, instr.hearts,
                                               hangul_times_dots(instr)).m, instr),
                 result |-> process_hearts(Manager, instr.hearts,
                                           hangul_times_dots(instr)).result])

\* advance on the instruction fetched
OnInstruction(pos, fetched, wrapped, instr) ==
    AfterHearts(pos, fetched, wrapped, instr,
                process_hearts(Dispatch(Manager, instr), instr.hearts,
                               hangul_times_dots(instr)))

\* advance once the fetch has left the list instrs and the position pos.
\* Indexing the list past its end panics.
Execute(instrs, pos, fetched, wrapped) ==
    /\ instructions' = instrs
    /\ steps' = steps + 1
    /\ UNCHANGED <<called, source>>
    /\ UNCHANGED rationalVars
    /\ IF pos >= Len(instrs)
       THEN Panic(Manager, pos, fetched, wrapped, NoStep.instr)
       ELSE OnInstruction(pos, fetched, wrapped, instrs[pos + 1])

\* run has not returned and nothing has panicked
Running == returned = None /\ ~panicked /\ steps < MaxSteps

\* advance with the instruction at the position already in the list
AdvanceCached ==
    /\ Running
    /\ Len(instructions) > position
    /\ Execute(instructions, position, FALSE, FALSE)
    /\ UNCHANGED <<code, operation_cache, token_cache, cache_span, yielded, spans, ended>>

\* advance taking one more instruction from the parser: Parser::next gives Some
AdvancePull ==
    /\ Running
    /\ Len(instructions) <= position
    /\ operation_cache # None
    /\ LET op      == operation_cache[1]
           next_op == parse_hangul(code)
           instr   == Instruction_new(op, Dots(next_op.tokens), Hearts(next_op.tokens))
       IN  /\ operation_cache' = next_op.op
           /\ code' = next_op.code
           /\ token_cache' = next_op.tokens
           /\ cache_span' = <<next_op.from, next_op.to>>
           /\ yielded' = Append(yielded, instr)
           /\ spans' = Append(spans, cache_span)
           /\ ended' = ended
           /\ Execute(Append(instructions, instr), position, TRUE, FALSE)

\* advance finding the parser exhausted: Parser::next gives None
AdvanceWrap ==
    /\ Running
    /\ Len(instructions) <= position
    /\ operation_cache = None
    /\ ended' = TRUE
    /\ UNCHANGED <<code, operation_cache, token_cache, cache_span, yielded, spans>>
    /\ Execute(instructions, WrapTo(position), TRUE, TRUE)

ProcessorNext == AdvanceCached \/ AdvancePull \/ AdvanceWrap

ProcessorSpec == ProcessorInit /\ [][ProcessorNext]_vars

-----------------------------------------------------------------------------
(* The source text as the claims speak of it: positions are 1..Len(source) *)

\* first and last position of the operation of the i-th yielded instruction
StartAt(i) == Len(source) - spans[i][1]
EndAt(i) == Len(source) - spans[i][2]

\* position of the first character of the operation that follows the i-th
\* yielded instruction, or one past the end of the text when there is none
NextStart(i) ==
    IF i < Len(yielded) THEN StartAt(i + 1)
    ELSE IF operation_cache # None THEN Len(source) - cache_span[1]
    ELSE Len(source) + 1

IsTokenChar(c) == Token_from_char(c) # None
TokenOfChar(c) == Token_from_char(c)[1]

\* the recognised tokens among the characters at positions from..to
TokensBetween(from, to) ==
    LET recognised == SelectSeq(SubSeq(source, from, to), IsTokenChar)
    IN  [j \in 1..Len(recognised) |-> TokenOfChar(recognised[j])]

\* the token run of the i-th yielded instruction
RunOf(i) == TokensBetween(EndAt(i) + 1, NextStart(i) - 1)

\* the length of the maximal leading run of dot/ellipsis tokens
LeadingDots(run) ==
    CHOOSE k \in 0..Len(run) :
        /\ \A j \in 1..k : run[j][1] \in {"Dot", "ThreeDots"}
        /\ k = Len(run) \/ run[k + 1][1] \notin {"Dot", "ThreeDots"}

\* 1 per '.' and 3 per ellipsis glyph over that leading run
Magnitude(run) ==
    Cardinality({j \in 1..LeadingDots(run) : run[j][1] = "Dot"})
    + 3 * Cardinality({j \in 1..LeadingDots(run) : run[j][1] = "ThreeDots"})

-----------------------------------------------------------------------------
\* the operation each self-ending syllable denotes
SelfEndingOperation(c) ==
    CASE c = Hyeong -> "Push"
      [] c = Hang   -> "Add"
      [] c = Hat    -> "Multiply"
      [] c = Heut   -> "Negate"
      [] c = Heup   -> "Reciprocate"
      [] c = Heuk   -> "Duplicate"

\* the position lies inside the scan of a resolved open syllable
InsideScan(p) == \E i \in 1..Len(yielded) : StartAt(i) < p /\ p <= EndAt(i)

\* C2: every self-ending syllable the scanner meets outside an open-syllable
\* scan yields exactly one instruction, with repeat count 1 and the operation
\* of that syllable; instructions come out in source order; the text of the six
\* self-ending syllables yields exactly six instructions of magnitude 0 and
\* heart tree Nil, then the end of the stream.
C2_SelfEnding ==
    /\ \A i \in 1..Len(yielded) :
          source[StartAt(i)] \in SelfEndingChars =>
              /\ EndAt(i) = StartAt(i)
              /\ yielded[i].op = [op_type |-> SelfEndingOperation(source[StartAt(i)]),
                                  hangul_count |-> 1]
    /\ \A i \in 1..Len(yielded) : i > 1 => EndAt(i - 1) < StartAt(i)
    /\ ended =>
          \A p \in 1..Len(source) :
              (source[p] \in SelfEndingChars /\ ~InsideScan(p)) =>
                  Cardinality({i \in 1..Len(yielded) : StartAt(i) = p}) = 1
    /\ (ended /\ source = Text_six_self_ending) =>
          yielded = <<Expect("Push", 1, 0, Nil), Expect("Add", 1, 0, Nil),
                      Expect("Multiply", 1, 0, Nil), Expect("Negate", 1, 0, Nil),
                      Expect("Reciprocate", 1, 0, Nil), Expect("Duplicate", 1, 0, Nil)>>

\* C2 witness: the stream of the six self-ending syllables has ended
C2_Witness ==
    ended /\ source = Text_six_self_ending /\ Len(yielded) = 6

-----------------------------------------------------------------------------
\* the closing syllables valid for an open syllable
ClosersOf(c) ==
    CASE c = Hyeo -> {Eong}
      [] c = Ha   -> {Ang, At}
      [] c = Heu  -> {Eut, Eup, Euk}

\* the operation each closing syllable denotes
ClosingOperation(c) ==
    CASE c = Eong -> "Push"
      [] c = Ang  -> "Add"
      [] c = At   -> "Multiply"
      [] c = Eut  -> "Negate"
      [] c = Eup  -> "Reciprocate"
      [] c = Euk  -> "Duplicate"

\* the Unicode Hangul syllable block, U+AC00 to U+D7A3
HangulSyllables == 44032..55203

\* C3: an open syllable is resolved at the first later character that is a
\* closing syllable of its class; the operation is the one of that closing
\* syllable and the repeat count is 1 plus the number of Hangul-block
\* characters after the open syllable up to and including the closing one.
C3_OpenSyllable ==
    \A i \in 1..Len(yielded) :
        LET from == StartAt(i)
            to   == EndAt(i)
        IN  source[from] \in OpenChars =>
              /\ from < to
              /\ source[to] \in ClosersOf(source[from])
              /\ \A p \in (from + 1)..(to - 1) : source[p] \notin ClosersOf(source[from])
              /\ yielded[i].op.op_type = ClosingOperation(source[to])
              /\ yielded[i].op.hangul_count =
                    1 + Cardinality({p \in (from + 1)..to : source[p] \in HangulSyllables})

\* C3 witness: a resolved scan that passes a closing syllable of another
\* class, a trigger syllable and a character outside the Hangul block
C3_Witness ==
    \E i \in 1..Len(yielded) :
        LET from == StartAt(i)
            to   == EndAt(i)
        IN  /\ source[from] \in OpenChars
            /\ \E p \in (from + 1)..(to - 1) : source[p] \in ClosingChars
            /\ \E p \in (from + 1)..(to - 1) : source[p] \in TriggerChars
            /\ \E p \in (from + 1)..(to - 1) : source[p] \notin HangulSyllables
            /\ yielded[i].op.hangul_count < to - from + 1

-----------------------------------------------------------------------------
\* a closing syllable valid for the open syllable at p comes after p
HasCloserAfter(p) ==
    \E q \in (p + 1)..Len(source) : source[q] \in ClosersOf(source[p])

\* an open syllable, outside every resolved scan, with no valid closing
\* syllable in the rest of the text
UnclosedOpen(p) ==
    source[p] \in OpenChars /\ ~InsideScan(p) /\ ~HasCloserAfter(p)

\* C4 as claimed: when an open syllable has no valid closing syllable in the
\* rest of the text, parsing ends there, so every instruction of the stream
\* starts before that open syllable.
C4_Original ==
    ended =>
        \A p \in 1..Len(source) :
            UnclosedOpen(p) => \A i \in 1..Len(yielded) : StartAt(i) < p

\* a trigger syllable, outside every resolved scan, that can be completed: a
\* self-ending syllable, or an open syllable with a valid closing syllable later
Completable(p) ==
    /\ source[p] \in TriggerChars
    /\ ~InsideScan(p)
    /\ source[p] \in SelfEndingChars \/ HasCloserAfter(p)

\* C4 as amended: an open syllable with no valid closing syllable in the rest
\* of the text yields no instruction, and parsing goes on after it: the stream
\* holds one instruction for each completable trigger syllable of the text, also
\* for those that come after the open syllable.
C4_Amended ==
    ended =>
        /\ \A i \in 1..Len(yielded) : ~UnclosedOpen(StartAt(i))
        /\ {StartAt(i) : i \in 1..Len(yielded)} = {p \in 1..Len(source) : Completable(p)}

\* C4 witness: the stream has ended with one instruction from before and one
\* from after an open syllable that has no closing syllable
C4_Witness ==
    /\ ended
    /\ \E p \in 1..Len(source) :
          /\ UnclosedOpen(p)
          /\ \E i \in 1..Len(yielded) : StartAt(i) < p
          /\ \E i \in 1..Len(yielded) : StartAt(i) > p

-----------------------------------------------------------------------------
\* C5: an open syllable with no valid closing syllable is skipped like filler:
\* the stream is the one of the text with a space in its place, so later
\* trigger syllables yield their instructions and the tokens on both sides of
\* it are one token run.
C5_SkippedLikeFiller ==
    ended =>
        \A p \in 1..Len(source) :
            UnclosedOpen(p) => yielded = Collect([source EXCEPT ![p] = 32])

\* C5 witness: an open syllable with no closing syllable stands inside the
\* token run of an instruction, with tokens of that run on both sides, and a
\* later trigger syllable has yielded an instruction
C5_Witness ==
    /\ ended
    /\ \E p \in 1..Len(source) : \E i \in 1..Len(yielded) :
          /\ UnclosedOpen(p)
          /\ EndAt(i) < p /\ p < NextStart(i)
          /\ TokensBetween(EndAt(i) + 1, p - 1) # <<>>
          /\ TokensBetween(p + 1, NextStart(i) - 1) # <<>>
          /\ yielded[i].dots = 2
          /\ i < Len(yielded)

-----------------------------------------------------------------------------
\* text with character c inserted after its first k characters
InsertAt(text, k, c) == SubSeq(text, 1, k) \o <<c>> \o SubSeq(text, k + 1, Len(text))

\* the places between two operations, before the first and after the last
InsertionPoints ==
    {k \in 0..Len(source) : ~\E i \in 1..Len(yielded) : StartAt(i) <= k /\ k < EndAt(i)}

\* characters that are neither trigger syllables nor recognised tokens: a
\* space, a Hangul syllable that is no closing syllable, a heart that is no
\* heart mark, and three closing syllables
FillerChars == {32, 50612, 10085, Eong, At, Euk}

\* the texts into which the filler characters are inserted: short texts over
\* the syllable alphabet that yield at least one instruction
InsertionCase ==
    /\ ended
    /\ Len(yielded) >= 1
    /\ Len(source) <= InsertLen
    /\ \A j \in 1..Len(source) : source[j] \in SyllableAlphabet

\* C6 as claimed: inserting a character that is neither a trigger syllable nor
\* a recognised token (closing syllables included) between two operations,
\* before the first or after the last leaves the instruction sequence unchanged.
C6_Original ==
    InsertionCase =>
        \A k \in InsertionPoints : \A c \in FillerChars :
            Collect(InsertAt(source, k, c)) = yielded

\* an open syllable before the insertion point lacks the closing syllable c
ClosesAnOpen(k, c) ==
    \E p \in 1..k : UnclosedOpen(p) /\ c \in ClosersOf(source[p])

\* C6 as amended: such an insertion leaves the instruction sequence unchanged
\* unless the character is a closing syllable and an open syllable of its
\* class, met by the scanner and left without a closing syllable, precedes the
\* insertion point.
C6_Amended ==
    InsertionCase =>
        \A k \in InsertionPoints : \A c \in FillerChars :
            ~ClosesAnOpen(k, c) => Collect(InsertAt(source, k, c)) = yielded

\* C6 witness: a text of two instructions, one of them an open syllable with
\* its closing syllable, with a token run, into which filler is inserted
C6_Witness ==
    /\ InsertionCase
    /\ Len(yielded) = 2
    /\ \E i \in 1..2 : StartAt(i) < EndAt(i)
    /\ \E i \in 1..2 : yielded[i].dots > 0
    /\ Cardinality(InsertionPoints) >= 3

-----------------------------------------------------------------------------
(* Heart trees as the claims speak of them *)

IsHeartToken(token) == token[1] \notin {"Dot", "ThreeDots"}
IsSeparator(token) == token[1] \in {"ExclamationMark", "QuestionMark"}

\* the tokens of the i-th instruction's run other than dots and ellipses
HeartRunOf(i) == SelectSeq(RunOf(i), IsHeartToken)

\* the positions of the '!' and '?' tokens of a run h, and the m-th of them
Separators(h) == {j \in 1..Len(h) : IsSeparator(h[j])}
NthSeparator(h, m) ==
    CHOOSE j \in Separators(h) : Cardinality({x \in Separators(h) : x < j}) = m - 1

\* the m-th stretch of h: the tokens between two consecutive '!'/'?' tokens,
\* or between one of them and the start or the end of the run
StretchOf(h, m) ==
    LET n    == Cardinality(Separators(h))
        from == IF m = 1 THEN 1 ELSE NthSeparator(h, m - 1) + 1
        to   == IF m = n + 1 THEN Len(h) ELSE NthSeparator(h, m) - 1
    IN  SubSeq(h, from, to)

LeafOfToken(token) ==
    IF token[1] = "Heart" THEN <<"Heart", token[2]>> ELSE <<"Return">>

\* the leaf of a stretch: its first heart or return-heart token, or Nil
LeafOfStretch(stretch) ==
    IF stretch = <<>> THEN Nil ELSE LeafOfToken(stretch[1])

\* the leaves of a run h, one per stretch, in token order
LeavesOf(h) ==
    [m \in 1..(Cardinality(Separators(h)) + 1) |-> LeafOfStretch(StretchOf(h, m))]

\* the leaves of a heart tree from left to right
RECURSIVE TreeLeaves(_)
TreeLeaves(tree) ==
    IF tree[1] \in {"LessThan", "Equals"}
    THEN TreeLeaves(tree[2]) \o TreeLeaves(tree[3])
    ELSE <<tree>>

\* C7: the pending leaf is first-wins: the leaves of an instruction's heart
\* tree are, in token order, the first heart or return-heart token of each
\* stretch between two consecutive '!'/'?' tokens (or the start or end of the
\* run), and Nil for a stretch that has none.
C7_FirstWins ==
    \A i \in 1..Len(yielded) :
        TreeLeaves(yielded[i].hearts) = LeavesOf(HeartRunOf(i))

\* C7 witness: a stretch that holds a heart and then a return heart, or a
\* return heart and then a heart, before a '!' or '?'
C7_Witness ==
    \E i \in 1..Len(yielded) :
        LET h == HeartRunOf(i) IN
        /\ Len(h) >= 3
        /\ h[1][1] \in {"Heart", "ReturnHeart"}
        /\ h[2][1] \in {"Heart", "ReturnHeart"}
        /\ h[1][1] # h[2][1]
        /\ IsSeparator(h[3])
        /\ TreeLeaves(yielded[i].hearts)[1] = LeafOfToken(h[1])

-----------------------------------------------------------------------------
\* the leaves after which a group closes: those pushed at a '?', and the last
GroupEnds(h) ==
    {m \in 1..Cardinality(Separators(h)) : h[NthSeparator(h, m)][1] = "QuestionMark"}
    \cup {Cardinality(Separators(h)) + 1}

NthGroupEnd(h, g) ==
    CHOOSE m \in GroupEnds(h) : Cardinality({x \in GroupEnds(h) : x < m}) = g - 1

\* the leaves a0..ak of the g-th group
GroupLeaves(h, g) ==
    SubSeq(LeavesOf(h), IF g = 1 THEN 1 ELSE NthGroupEnd(h, g - 1) + 1, NthGroupEnd(h, g))

\* Equals(a0, Equals(a1, ... Equals(a(k-1), ak)))
RECURSIVE RightNestedEquals(_)
RightNestedEquals(leaves) ==
    IF Len(leaves) = 1 THEN leaves[1]
    ELSE <<"Equals", leaves[1], RightNestedEquals(Tail(leaves))>>

\* the operands g0..gm of LessThan(g0, LessThan(g1, ... gm))
RECURSIVE LessThanOperands(_)
LessThanOperands(tree) ==
    IF tree[1] = "LessThan" THEN <<tree[2]>> \o LessThanOperands(tree[3])
    ELSE <<tree>>

\* C8: each group of '!' tokens closed by a '?' or by the end of the run, with
\* leaves a0..ak, is reduced to the one node Equals(a0, Equals(a1, ... ak)), and
\* the nodes of earlier groups stay as they were: the operands of the heart
\* tree are the right-nested Equals nodes of the groups, in token order.
C8_EqualsGroups ==
    \A i \in 1..Len(yielded) :
        LET h == HeartRunOf(i) IN
        LessThanOperands(yielded[i].hearts) =
            [g \in 1..Cardinality(GroupEnds(h)) |-> RightNestedEquals(GroupLeaves(h, g))]

\* C8 witness: a group of two '!' closed by the end of the run, after an
\* earlier group that stays on the output stack
C8_Witness ==
    \E i \in 1..Len(yielded) :
        yielded[i].hearts =
            <<"LessThan", <<"Heart", 0>>,
              <<"Equals", Nil, <<"Equals", <<"Return">>, Nil>>>>>>

-----------------------------------------------------------------------------
\* LessThan(g0, LessThan(g1, ... LessThan(g(m-1), gm)))
RECURSIVE RightNestedLessThan(_)
RightNestedLessThan(nodes) ==
    IF Len(nodes) = 1 THEN nodes[1]
    ELSE <<"LessThan", nodes[1], RightNestedLessThan(Tail(nodes))>>

\* C9: the nodes g0..gm left once the equals groups are reduced are folded
\* from the right into LessThan(g0, LessThan(g1, ... gm)); a run with no heart,
\* '!' or '?' token yields Nil.
C9_LessThanFold ==
    \A i \in 1..Len(yielded) :
        /\ yielded[i].hearts = RightNestedLessThan(EqualsGroups(RunOf(i)))
        /\ HeartRunOf(i) = <<>> => yielded[i].hearts = Nil

\* C9 witness: three nodes, the last of them an Equals node, folded into two
\* nested LessThan nodes
C9_Witness ==
    \E i \in 1..Len(yielded) :
        yielded[i].hearts =
            <<"LessThan", <<"Heart", 0>>,
              <<"LessThan", <<"Return">>, <<"Equals", Nil, Nil>>>>>>

-----------------------------------------------------------------------------
\* C10: the poison laws.  x == NaN and NaN == x are false; NaN < x and x < NaN
\* are false and the comparison is unordered; NaN + x, x + NaN, NaN * x,
\* x * NaN and -NaN are poison; the reciprocal of NaN and of exact zero is
\* poison, and for a non-zero exact x the reciprocal of the reciprocal equals x.
C10_PoisonLaws ==
    LET poisoned == lhs.nan \/ rhs.nan IN
    /\ applied = "eq" => (poisoned => result = FALSE)
    /\ applied = "lt" => (poisoned => result = FALSE)
    /\ applied = "partial_cmp" => (poisoned => result = "None")
    /\ applied = "add" => (poisoned => result.nan)
    /\ applied = "mul" => (poisoned => result.nan)
    /\ applied = "neg" => (lhs.nan => result.nan)
    /\ applied = "recip" =>
          /\ lhs.nan => result.nan
          /\ (~lhs.nan /\ lhs.num = 0) => result.nan
          /\ (~lhs.nan /\ lhs.num # 0) => (~result.nan /\ hr_eq(hr_recip(result), lhs))

\* C10 witness: the reciprocal of the non-zero exact value -2/3 has been taken
C10_Witness ==
    /\ applied = "recip"
    /\ lhs = [nan |-> FALSE, num |-> -2, den |-> 3]
    /\ result = [nan |-> FALSE, num |-> -3, den |-> 2]

-----------------------------------------------------------------------------
(* The stack manager as the claims speak of it *)

\* the last call was one of the four operations that check for the exit
CalledArithmetic == called.name \in {"add", "mul", "neg", "recip"}

\* the last call changed neither a stack nor a stream
NothingMoved ==
    /\ stacks = called.before.stacks
    /\ stdin = called.before.stdin
    /\ stdout = called.before.stdout
    /\ stderr = called.before.stderr

\* C11: add, multiply, negate or reciprocate called while stack 1 is selected
\* sets exit_code to 0, and while stack 2 is selected to 1; the call pops
\* nothing, pushes nothing (no stack and no stream changes) and leaves the
\* selected id as it was, for every count and target.
C11_ExitTrigger ==
    (CalledArithmetic /\ called.before.selected \in {1, 2}) =>
        /\ exit_code = Some(IF called.before.selected = 1 THEN 0 ELSE 1)
        /\ NothingMoved
        /\ selected = called.before.selected

\* C11 witness: reciprocate, called with stack 2 selected and no exit code
\* yet, has set the exit code 1
C11_Witness ==
    /\ called.name = "recip"
    /\ called.before.selected = 2
    /\ called.before.exit_code = None
    /\ exit_code = Some(1)

\* C12: duplicate called while stack 1 or 2 is selected never sets an exit
\* code: it makes no exit check and, whatever stack is selected, peeks the top
\* value, changes the selection to the target and pushes the copies.
C12_DuplicateExempt ==
    (called.name = "duplicate" /\ called.before.selected \in {1, 2}) =>
        /\ exit_code = called.before.exit_code
        /\ selected = called.to
        /\ Manager = duplicate_unchecked(called.before, called.count, called.to)

\* C13: push never sets or changes exit_code, whatever stack is selected; with
\* stack 1 or 2 selected, push(repeat, magnitude) writes the rendering of
\* repeat x magnitude to that stream.
C13_PushNoExit ==
    called.name = "push" =>
        LET text == Display(from_integer(called.count * called.to)).text IN
        /\ exit_code = called.before.exit_code
        /\ selected = called.before.selected
        /\ called.before.selected = 1 =>
              stdout = called.before.stdout \o text /\ stderr = called.before.stderr
        /\ called.before.selected = 2 =>
              stderr = called.before.stderr \o text /\ stdout = called.before.stdout

\* C13 witness: push, called with stack 1 selected and the exit code 0 set,
\* has written one character to the stream of stack 1
C13_Witness ==
    /\ called.name = "push"
    /\ called.before.selected = 1
    /\ called.before.exit_code = Some(0)
    /\ exit_code = Some(0)
    /\ stdout = called.before.stdout \o <<called.count * called.to>>

\* C14: over every sequence of calls of the stack manager, once exit_code
\* holds a value it never becomes unset and never changes to another value.
C14_ExitCodeKept ==
    (called.name # "none" /\ called.before.exit_code # None) =>
        exit_code = called.before.exit_code

\* C14 witness: with the exit code 0 set, an operation that checks for the
\* exit has been called once more
C14_Witness ==
    /\ called.name \in {"add", "duplicate"}
    /\ called.before.exit_code = Some(0)
    /\ exit_code = Some(0)

\* C15: in every reachable state the stacks 0, 1 and 2 exist and the selected
\* id is the id of a stack that exists; right after construction the selected
\* stack is stack 3, which exists and is empty, and exit_code is unset; no
\* call removes a stack.
C15_StacksExist ==
    /\ {0, 1, 2} \subseteq DOMAIN stacks
    /\ selected \in DOMAIN stacks
    /\ called.name = "none" =>
          selected = 3 /\ stacks[3] = <<>> /\ exit_code = None
    /\ called.name # "none" => DOMAIN called.before.stacks \subseteq DOMAIN stacks

\* C15 witness: a call has made the stack 4 and selected it
C15_Witness ==
    /\ called.name = "duplicate"
    /\ 4 \notin DOMAIN called.before.stacks
    /\ 4 \in DOMAIN stacks
    /\ selected = 4

\* the last call was duplicate with stack 1 or 2 selected
DuplicateAtExit == called.name = "duplicate" /\ called.before.selected \in {1, 2}

\* C12, as amended: duplicate makes the same exit check as add, multiply,
\* negate and reciprocate: called while stack 1 or 2 is selected it sets
\* exit_code to 0 or 1, peeks nothing, pushes nothing and leaves the
\* selection; called with another stack selected it sets no exit code, peeks
\* the top value, changes the selection to the target and pushes the copies.
C12_Amended ==
    /\ DuplicateAtExit =>
          /\ exit_code = Some(IF called.before.selected = 1 THEN 0 ELSE 1)
          /\ NothingMoved
          /\ selected = called.before.selected
    /\ (called.name = "duplicate" /\ called.before.selected \notin {1, 2}) =>
          /\ exit_code = called.before.exit_code
          /\ selected = called.to
          /\ Manager = duplicate_unchecked(called.before, called.count, called.to)

\* C12 witness: duplicate, called with stack 1 selected and no exit code yet,
\* has set the exit code 0 and left stack 1 selected
C12_Witness ==
    /\ DuplicateAtExit
    /\ called.before.selected = 1
    /\ called.before.exit_code = None
    /\ called.to # 1
    /\ exit_code = Some(0)

-----------------------------------------------------------------------------
(* The processor as the claims speak of it *)

\* the last step ran its instruction and the heart tree gave Heart(id)
HeartStepDone == last_step.executed /\ last_step.result[1] = "Heart"

\* the label the last step looked up
StepLabel == LabelOf(last_step.instr, last_step.result[2])

\* C16: a Heart(id) outcome whose label is absent from the table inserts it
\* bound to the current position and advances by one; one whose label is
\* present never changes the table, and if the bound position differs from
\* the current one it stores the current position in last_jump and sets the
\* position to the bound one, otherwise it advances by one.  Every entry of
\* the table keeps the first position for good.
C16_LabelMemo ==
    /\ HeartStepDone =>
          LET cur == last_step.position
              old == last_step.before.labels
          IN  IF ~HasLabel(old, StepLabel)
              THEN /\ labels = old \cup {<<StepLabel, cur>>}
                   /\ position = cur + 1
                   /\ last_jump = last_step.before.last_jump
              ELSE /\ labels = old
                   /\ IF BoundTo(old, StepLabel) # cur
                      THEN last_jump = Some(cur) /\ position = BoundTo(old, StepLabel)
                      ELSE position = cur + 1 /\ last_jump = last_step.before.last_jump
    /\ steps > 0 => last_step.before.labels \subseteq labels
    /\ \A e \in labels : \A f \in labels : e[1] = f[1] => e = f

\* C16 witness: a Heart(id) outcome found its label bound to an earlier
\* position and jumped there
C16_Witness ==
    /\ HeartStepDone
    /\ HasLabel(last_step.before.labels, StepLabel)
    /\ position < last_step.position
    /\ last_jump = Some(last_step.position)

\* C17: the table is keyed by the magnitude (the dot count) of the instruction
\* and the heart id: a Heart(id) outcome at an instruction of magnitude m
\* looks up, and if absent inserts, the key (m, id).
C17_Original ==
    HeartStepDone =>
        /\ HasLabel(labels, <<last_step.instr.dots, last_step.result[2]>>)
        /\ labels \ last_step.before.labels
              \subseteq {<<<<last_step.instr.dots, last_step.result[2]>>, last_step.position>>}

\* the repeat count times the magnitude of the instruction of the last step
StepProduct == last_step.instr.op.hangul_count * last_step.instr.dots

\* C17, as amended: the table is keyed by the product of the repeat count and
\* the magnitude of the instruction (the comparison target of its heart tree)
\* and the heart id: a Heart(id) outcome at an instruction of repeat count c
\* and magnitude m looks up, and if absent inserts, the key (c x m, id), so
\* two instructions with the same product and heart id share one label
\* whatever their repeat counts and magnitudes, and two with different
\* products never share one.
C17_Amended ==
    HeartStepDone =>
        LET key == <<StepProduct, last_step.result[2]>> IN
        /\ HasLabel(labels, key)
        /\ labels \ last_step.before.labels \subseteq {<<key, last_step.position>>}
        /\ position \in {BoundTo(labels, key), last_step.position + 1}
        /\ \A e \in labels :
              LET at == instructions[e[2] + 1] IN
              e[1][1] = at.op.hangul_count * at.dots

\* C17 witness: a jump to the label of an instruction of another magnitude
\* and another repeat count
C17_Witness ==
    /\ HeartStepDone
    /\ last_step.jumped
    /\ instructions[position + 1].dots # last_step.instr.dots
    /\ instructions[position + 1].op.hangul_count # last_step.instr.op.hangul_count

\* C18: a Return outcome sets the position to last_jump when it holds a value
\* and otherwise advances by one, and never changes last_jump; last_jump
\* always holds the position of the latest instruction that jumped, none
\* before the first jump, so every Return after jumps from p1 and then p2
\* lands on p2.
C18_Return ==
    /\ (last_step.executed /\ last_step.result = <<"Return">>) =>
          /\ last_jump = last_step.before.last_jump
          /\ position = IF last_step.before.last_jump # None
                        THEN last_step.before.last_jump[1]
                        ELSE last_step.position + 1
    /\ steps > 0 =>
          last_jump = IF last_step.origins = <<>> THEN None
                      ELSE Some(Last(last_step.origins))

\* C18 witness: after jumps from two different positions, two Return outcomes
\* in a row have landed on the second of them
C18_Witness ==
    /\ Len(last_step.origins) >= 2
    /\ Last(Front(last_step.origins)) # Last(last_step.origins)
    /\ last_step.returns >= 2
    /\ last_step.result = <<"Return">>
    /\ position = Last(last_step.origins)

\* the wrap, the instruction list and the parser after its end, as C19 has them
WrapAndLoop ==
    /\ (last_step.wrapped /\ Len(instructions) > 0) =>
          /\ last_step.position = 0
          /\ last_step.executed
          /\ last_step.instr = instructions[1]
    /\ (steps > 0 /\ last_step.before.ended) =>
          /\ ended
          /\ instructions = last_step.before.instructions
          /\ last_step.fetched => last_step.wrapped
    /\ (exit_code = None /\ ~panicked) => returned = None

\* the last step ran one of these operations with stack 1 or 2 selected
ExitTriggeredBy(operations) ==
    /\ last_step.executed
    /\ last_step.instr.op.op_type \in operations
    /\ last_step.before.manager.selected \in {1, 2}

\* C19: when the position reaches the end of the instruction list and the
\* parser is exhausted, the position wraps to 0 and the first instruction is
\* run again in that same step; from then on the list never grows and the
\* parser keeps returning the end of the stream, and the program loops until
\* an exit code is decided: a program that never runs add, multiply, negate
\* or reciprocate with stack 1 or 2 selected never terminates.
C19_Original ==
    /\ WrapAndLoop
    /\ returned # None => ExitTriggeredBy({"Add", "Multiply", "Negate", "Reciprocate"})

\* C19, as amended: the same, with duplicate among the operations that end
\* the program: a program that never runs add, multiply, negate, reciprocate
\* or duplicate with stack 1 or 2 selected never terminates.
C19_Amended ==
    /\ WrapAndLoop
    /\ returned # None =>
          ExitTriggeredBy({"Add", "Multiply", "Negate", "Reciprocate", "Duplicate"})

\* C19 witness: the step that wrapped to the first instruction, a duplicate
\* with stack 1 selected, has ended the run
C19_Witness ==
    /\ last_step.wrapped
    /\ last_step.position = 0
    /\ last_step.instr.op.op_type = "Duplicate"
    /\ last_step.before.manager.selected = 1
    /\ returned # None

\* C20: run returns only after a step at whose end the stack manager holds an
\* exit code, it returns that code (0 when the trigger fired with stack 1
\* selected, 1 with stack 2), and no instruction runs after the step in which
\* the exit code was decided.
C20_RunReturns ==
    /\ returned # None =>
          /\ exit_code # None
          /\ returned[1].code = exit_code[1]
          /\ selected \in {1, 2}
          /\ returned[1].code = (IF selected = 1 THEN 0 ELSE 1)
          /\ last_step.before.manager.exit_code = None
    /\ (exit_code # None /\ ~panicked) => returned # None

\* C20 witness: run has returned 1, the trigger having fired with stack 2
\* selected
C20_Witness ==
    /\ returned # None
    /\ returned[1].code = 1
    /\ last_step.before.manager.selected = 2
    /\ last_step.before.manager.exit_code = None

-----------------------------------------------------------------------------
(* The end of a run as the claims speak of it *)

\* C21: over the lifetime of a processor whose run ends by an exit code (its
\* creation, its run and its disposal) the output streams of the stack manager
\* are flushed exactly once.
C21_FlushedOnce ==
    exit_code # None => flushes = 1

\* C22: a failure of the final flush is reported beside the exit code already
\* decided: the code run returns is the one the stack manager decided, a flush
\* failure never makes run or the disposal of the processor panic, and when
\* the flush of stream 1 fails run reports that error.
C22_FlushFailure ==
    /\ returned # None =>
          exit_code # None /\ returned[1].code = exit_code[1]
    /\ exit_code # None => ~panicked
    /\ (exit_code # None /\ last_step.run_flush = <<"Err", 1>>) =>
          returned # None /\ returned[1].flush = <<"Err", 1>>

-----------------------------------------------------------------------------
(* The text written for a value as the claims speak of it *)

\* f is the floor of the ratio v
IsFloorOf(f, v) == f * v.den <= v.num /\ v.num < (f + 1) * v.den

\* the number a text of decimal digits stands for, -1 if it is not one
RECURSIVE DecimalValue(_)
DecimalValue(text) ==
    IF text = <<>> THEN -1
    ELSE IF Last(text) < 48 \/ Last(text) > 57 THEN -1
    ELSE IF Len(text) = 1 THEN Last(text) - 48
    ELSE IF DecimalValue(Front(text)) < 0 THEN -1
    ELSE DecimalValue(Front(text)) * 10 + (Last(text) - 48)

\* the text is the one the three-way rule gives for the value
RenderedByRule(v, text) ==
    IF v.nan THEN text = TooBigText
    ELSE IF v.num >= 1114112 * v.den THEN text = TooBigText
    ELSE IF v.num >= 0 THEN Len(text) = 1 /\ IsFloorOf(text[1], v)
    ELSE DecimalValue(text) > 0 /\ IsFloorOf(-DecimalValue(text), v)

\* C23: rendering is total and follows the three-way rule: a value whose floor
\* f is in 0..0x10FFFF is written as the one character of scalar value f, one
\* whose floor is 0x110000 or more as the fallback text, one whose floor is
\* negative as the decimal digits of |f| without a sign, poison as the
\* fallback text; no value makes the rendering fail.
C23_RenderingTotal ==
    applied # "none" =>
        /\ ~result.panic
        /\ RenderedByRule(lhs, result.text)

-----------------------------------------------------------------------------
(* The scalar reader as the claims speak of it *)

\* how many continuation bytes the bit pattern of a lead byte announces:
\* 0xxxxxxx, 110xxxxx, 1110xxxx, 11110xxx; -1 for a byte of no pattern
Continuations(lead) ==
    CASE lead \div 128 = 0 -> 0
      [] lead \div 32 = 6  -> 1
      [] lead \div 16 = 14 -> 2
      [] lead \div 8 = 30  -> 3
      [] OTHER             -> -1

\* the lead byte masked with 0x7f, 0x1f, 0x0f or 0x07
Payload(lead) ==
    CASE Continuations(lead) = 0 -> lead % 128
      [] Continuations(lead) = 1 -> lead % 32
      [] Continuations(lead) = 2 -> lead % 16
      [] OTHER                   -> lead % 8

\* the byte is of the pattern 10xxxxxx
IsContinuation(byte) == byte \div 64 = 2

\* the scalar of a sequence of n + 1 bytes: the payload of the lead shifted
\* left by 6 bits for each continuation byte, the low 6 bits of each
\* continuation byte or-ed in at its place
ScalarOf(bytes, n) ==
    CASE n = 0 -> Payload(bytes[1])
      [] n = 1 -> (Payload(bytes[1]) * 64) + (bytes[2] % 64)
      [] n = 2 -> (Payload(bytes[1]) * 4096) + ((bytes[2] % 64) * 64) + (bytes[3] % 64)
      [] OTHER -> (Payload(bytes[1]) * 262144) + ((bytes[2] % 64) * 4096)
                  + ((bytes[3] % 64) * 64) + (bytes[4] % 64)

\* how many bytes the last read took from the reader
Consumed == Len(called.before) - Len(stdin)

\* C24: the scalar reader reads one lead byte and classifies it as the start
\* of a sequence of 1, 2, 3 or 4 bytes by its bit pattern; on success it
\* returns the masked lead byte shifted left by 6 bits per continuation byte
\* with the low 6 bits of each continuation byte or-ed in, and has consumed
\* exactly the bytes of that scalar.  It fails when the lead byte matches no
\* pattern (having consumed 1 byte), when a continuation byte is not of the
\* pattern 10xxxxxx (having consumed the lead and all the continuation bytes
\* expected) or when the source ends before the sequence is complete; what
\* was consumed is never given back.
C24_ScalarReader ==
    /\ Test_codepoint_from_slice
    /\ called.name = "read_codepoint" =>
          LET bytes == called.before
              n     == IF bytes = <<>> THEN -1 ELSE Continuations(bytes[1])
          IN  /\ stdin = SubSeq(bytes, Consumed + 1, Len(bytes))
              /\ IF bytes = <<>>
                 THEN called.result = <<"Err">>
                 ELSE IF n = -1
                 THEN called.result = <<"Err">> /\ Consumed = 1
                 ELSE IF Len(bytes) < n + 1
                 THEN called.result = <<"Err">> /\ Consumed >= 1
                 ELSE /\ Consumed = n + 1
                      /\ IF \A i \in 2..(n + 1) : IsContinuation(bytes[i])
                         THEN called.result = <<"Ok", ScalarOf(bytes, n)>>
                         ELSE called.result = <<"Err">>

\* C24 witness: after a read that failed on a byte of no pattern, a read has
\* decoded a sequence of 2 bytes and left the byte after it in the reader
C24_Witness ==
    /\ called.name = "read_codepoint"
    /\ called.nth = 2
    /\ called.before = <<194, 191, 97>>
    /\ called.result = <<"Ok", (2 * 64) + 63>>
    /\ stdin = <<97>>

-----------------------------------------------------------------------------
(* The operations of the stack manager as the claims speak of them *)

\* the values count pops of a plain stack yield, the top first: poison once
\* the stack is empty
PoppedFrom(stack, count) ==
    [j \in 1..count |-> IF j <= Len(stack) THEN stack[Len(stack) + 1 - j] ELSE NaN]

\* what count pops leave of a plain stack
LeftOf(stack, count) ==
    IF count >= Len(stack) THEN <<>> ELSE SubSeq(stack, 1, Len(stack) - count)

\* the values count pops of the selected stack of the manager yield
PoppedOf(m, count) ==
    IF m.selected = 0 THEN PopMany(m, 0, count).values
    ELSE PoppedFrom(m.stacks[m.selected], count)

\* the sum of the values, 0 for none
RECURSIVE SumOf(_)
SumOf(values) ==
    IF values = <<>> THEN from_integer(0) ELSE hr_add(Head(values), SumOf(Tail(values)))

\* the product of the values, 1 for none
RECURSIVE ProductOf(_)
ProductOf(values) ==
    IF values = <<>> THEN from_integer(1) ELSE hr_mul(Head(values), ProductOf(Tail(values)))

\* the stack id of the manager m, empty if m has no such stack
StackOf(m, id) == IF id \in DOMAIN m.stacks THEN m.stacks[id] ELSE <<>>

\* since the manager was as in m, the values pushed have reached the stack
\* to, which held base: they are on top of it in order, or, for the stacks 1
\* and 2, their renderings follow on the stream; the other stream is as in m
PushedOnto(m, to, base, pushed) ==
    /\ to \in DOMAIN stacks
    /\ to = 1 => stdout = m.stdout \o pushed /\ stacks[1] = <<>>
    /\ to = 2 => stderr = m.stderr \o pushed /\ stacks[2] = <<>>
    /\ to # 1 => stdout = m.stdout
    /\ to # 2 => stderr = m.stderr
    /\ to \notin {1, 2} => stacks[to] = base \o pushed

\* the renderings of the values, one after the other with nothing between
RECURSIVE Renderings(_)
Renderings(values) ==
    IF values = <<>> THEN <<>>
    ELSE Display(Head(values)).text \o Renderings(Tail(values))

\* what the values are pushed as onto the stack to: their renderings for the
\* stacks 1 and 2, themselves otherwise
AsPushed(to, values) == IF to \in {1, 2} THEN Renderings(values) ELSE values

\* the last call, a fold of count pops onto the stack to, has popped count
\* values from the stack that was selected, pushed the value fold onto to,
\* made to if it was missing and left the selection and all the rest
FoldedOnto(fold) ==
    LET m   == called.before
        sel == m.selected
        to  == called.to
    IN  /\ selected = sel
        /\ exit_code = m.exit_code
        /\ DOMAIN stacks = DOMAIN m.stacks \cup {to}
        /\ PushedOnto(m, to,
                      IF to = sel THEN LeftOf(m.stacks[sel], called.count)
                      ELSE StackOf(m, to),
                      AsPushed(to, <<fold>>))
        /\ to # sel => stacks[sel] = LeftOf(m.stacks[sel], called.count)
        /\ \A i \in DOMAIN m.stacks \ {sel, to} : stacks[i] = m.stacks[i]
        /\ sel # 0 => stdin = m.stdin
        /\ sel = 0 => stdin = PopMany(m, 0, called.count).m.stdin

\* C25: with a selected stack other than 1 and 2, add(count, target) pops
\* exactly count values from the selected stack and pushes their sum (0 for
\* no value) onto target, and multiply(count, target) does the same with the
\* product (1 for no value); target is made as an empty plain stack if it is
\* missing, the selection does not change, and when the selected plain stack
\* holds fewer than count values the missing pops yield poison, so that the
\* value pushed is poison and the selected stack ends empty unless it is the
\* target.
C25_AddMultiply ==
    (called.name \in {"add", "mul"} /\ called.before.selected \notin {1, 2}) =>
        LET m      == called.before
            values == PoppedOf(m, called.count)
            fold   == IF called.name = "add" THEN SumOf(values) ELSE ProductOf(values)
        IN  /\ FoldedOnto(fold)
            /\ (m.selected # 0 /\ Len(m.stacks[m.selected]) < called.count) =>
                  /\ is_nan(fold)
                  /\ called.to # m.selected => stacks[m.selected] = <<>>
                  /\ called.to = m.selected => stacks[m.selected] = <<NaN>>

\* C25 witness: multiply(2, 0), called with stack 3 selected and holding 2
\* and 1, has left stack 3 empty and pushed 2 onto stack 0
C25_Witness ==
    /\ called.name = "mul"
    /\ called.count = 2
    /\ called.to = 0
    /\ called.before.selected = 3
    /\ called.before.stacks[3] = <<from_integer(2), from_integer(1)>>
    /\ stacks[3] = <<>>
    /\ stacks[0] = <<from_integer(2)>>

\* the negation or the reciprocal, as the last call takes it
Transform(value) == IF called.name = "neg" THEN hr_neg(value) ELSE hr_recip(value)

\* the values in the opposite order
Reversed(values) == [i \in 1..Len(values) |-> values[Len(values) + 1 - i]]

\* C26: with a selected stack other than 1 and 2, negate(count, target) and
\* reciprocate(count, target) pop count values from the selected stack, push
\* their negations (reciprocals) back onto the same stack in the original
\* order and then push the sum of the negations (the product of the
\* reciprocals) onto target: on a plain selected stack holding at least count
\* values the length and the values below the top count are unchanged, each
\* of the top count positions holds the transform of what it held, and when
\* target is the selected stack the fold lies on top of the values pushed
\* back.
C26_NegateReciprocate ==
    (called.name \in {"neg", "recip"} /\ called.before.selected \notin {1, 2}) =>
        LET m      == called.before
            sel    == m.selected
            to     == called.to
            temp   == [j \in 1..called.count |-> Transform(PoppedOf(m, called.count)[j])]
            fold   == IF called.name = "neg" THEN SumOf(temp) ELSE ProductOf(temp)
            back   == LeftOf(m.stacks[sel], called.count) \o Reversed(temp)
        IN  /\ selected = sel
            /\ exit_code = m.exit_code
            /\ DOMAIN stacks = DOMAIN m.stacks \cup {to}
            /\ PushedOnto(m, to, IF to = sel THEN back ELSE StackOf(m, to),
                          AsPushed(to, <<fold>>))
            /\ to # sel => stacks[sel] = back
            /\ \A i \in DOMAIN m.stacks \ {sel, to} : stacks[i] = m.stacks[i]
            /\ sel # 0 => stdin = m.stdin
            /\ sel = 0 => stdin = PopMany(m, 0, called.count).m.stdin
            /\ (sel # 0 /\ Len(m.stacks[sel]) >= called.count) =>
                  /\ Len(back) = Len(m.stacks[sel])
                  /\ \A i \in 1..Len(back) :
                        back[i] = IF i <= Len(back) - called.count THEN m.stacks[sel][i]
                                  ELSE Transform(m.stacks[sel][i])

\* C26 witness: negate(2, 0), called with stack 3 selected and holding 1 and
\* 2, has left -1 and -2 in stack 3 in that order and pushed -3 onto stack 0
C26_Witness ==
    /\ called.name = "neg"
    /\ called.count = 2
    /\ called.to = 0
    /\ called.before.selected = 3
    /\ called.before.stacks[3] = <<from_integer(1), from_integer(2)>>
    /\ stacks[3] = <<from_integer(-1), from_integer(-2)>>
    /\ stacks[0] = <<from_integer(-3)>>

\* count copies of the value
Copies(value, count) == [j \in 1..count |-> value]

\* C27: duplicate(count, target) is a peek on the source: it leaves the
\* content of the stack that was selected exactly as it was (same values, same
\* length), makes target the selected stack, making it if needed, and pushes
\* exactly count copies of the value that was on top of the stack that was
\* selected onto target; on an output stack the copies are rendered to its
\* stream in order.
C27_Original ==
    called.name = "duplicate" =>
        LET m   == called.before
            sel == m.selected
            to  == called.to
        IN  /\ selected = to
            /\ to # sel => stacks[sel] = m.stacks[sel]
            /\ PushedOnto(m, to, StackOf(m, to),
                          AsPushed(to, Copies(PoppedOf(m, 1)[1], called.count)))

\* C27, as amended: duplicate(count, target) called while stack 1 or 2 is
\* selected sets the exit code and does nothing else.  Called with another
\* stack selected it pops one value from that stack and pushes it back: a
\* stack that held a value is left exactly as it was, an empty plain stack
\* ends holding the poison value its pop yielded, and stack 0 with nothing
\* pushed back on it ends holding the scalar taken from the input (poison if
\* there is none).  It then makes target the selected stack, making it if
\* needed, and pushes exactly count copies of the popped value onto it; on an
\* output stack the copies are rendered to its stream in order.
C27_Amended ==
    /\ DuplicateAtExit =>
          /\ exit_code = Some(IF called.before.selected = 1 THEN 0 ELSE 1)
          /\ NothingMoved
          /\ selected = called.before.selected
    /\ (called.name = "duplicate" /\ called.before.selected \notin {1, 2}) =>
          LET m      == called.before
              sel    == m.selected
              to     == called.to
              top    == PoppedOf(m, 1)[1]
              peeked == LeftOf(m.stacks[sel], 1) \o <<top>>
          IN  /\ selected = to
              /\ exit_code = m.exit_code
              /\ DOMAIN stacks = DOMAIN m.stacks \cup {to}
              /\ m.stacks[sel] # <<>> => peeked = m.stacks[sel] /\ stdin = m.stdin
              /\ (m.stacks[sel] = <<>> /\ sel # 0) => peeked = <<NaN>> /\ stdin = m.stdin
              /\ (m.stacks[sel] = <<>> /\ sel = 0) => stdin = pop_one(m, 0).m.stdin
              /\ to # sel => stacks[sel] = peeked
              /\ PushedOnto(m, to, IF to = sel THEN peeked ELSE StackOf(m, to),
                            AsPushed(to, Copies(top, called.count)))
              /\ \A i \in DOMAIN m.stacks \ {sel, to} : stacks[i] = m.stacks[i]

\* C27 witness: duplicate(2, 2), called with stack 3 selected and holding 2
\* and 1, has left stack 3 as it was, selected stack 2 and written the
\* character of 1 twice to its stream
C27_Witness ==
    /\ called.name = "duplicate"
    /\ called.count = 2
    /\ called.to = 2
    /\ called.before.selected = 3
    /\ called.before.stacks[3] = <<from_integer(2), from_integer(1)>>
    /\ stacks[3] = called.before.stacks[3]
    /\ selected = 2
    /\ stderr = called.before.stderr \o <<1, 1>>

\* the tree is a comparison node
IsNode(tree) == tree[1] \in {"LessThan", "Equals"}

\* the depth of the deepest leaf of the tree
RECURSIVE TreeDepth(_)
TreeDepth(tree) ==
    IF IsNode(tree)
    THEN 1 + (IF TreeDepth(tree[2]) > TreeDepth(tree[3])
              THEN TreeDepth(tree[2]) ELSE TreeDepth(tree[3]))
    ELSE 0

\* the comparison of a node holds for the value popped: strictly less than
\* the target, or equal to it; never for poison
Holds(kind, value, target) ==
    /\ ~value.nan
    /\ IF kind = "LessThan" THEN value.num < target * value.den
       ELSE value.num = target * value.den

\* the leaf the walk of the tree reaches when the pops yield the values in
\* order, one per node, and the depth of that leaf
RECURSIVE LeafReached(_, _, _)
LeafReached(tree, values, target) ==
    IF IsNode(tree)
    THEN LET below == LeafReached(IF Holds(tree[1], Head(values), target)
                                  THEN tree[2] ELSE tree[3],
                                  Tail(values), target)
         IN  [leaf |-> below.leaf, depth |-> below.depth + 1]
    ELSE [leaf |-> tree, depth |-> 0]

\* the leaf at the end of the right branches of the tree
RECURSIVE RightmostLeaf(_)
RightmostLeaf(tree) == IF IsNode(tree) THEN RightmostLeaf(tree[3]) ELSE tree

\* the last call, process_hearts, has reached the leaf at the depth of walk
\* with one pop per node on the way
WalkedTo(m, walk) ==
    /\ called.result = walk.leaf
    /\ called.result[1] \in {"Heart", "Return", "Nil"}
    /\ selected = m.selected
    /\ exit_code = m.exit_code
    /\ DOMAIN stacks = DOMAIN m.stacks
    /\ stacks[m.selected] = LeftOf(m.stacks[m.selected], walk.depth)
    /\ \A i \in DOMAIN m.stacks \ {m.selected} : stacks[i] = m.stacks[i]
    /\ stdin = IF m.selected = 0 THEN PopMany(m, 0, walk.depth).m.stdin ELSE m.stdin
    /\ stdout = m.stdout
    /\ stderr = m.stderr
    /\ (m.selected \notin {0, 1, 2} /\ Len(m.stacks[m.selected]) >= walk.depth) =>
          Len(stacks[m.selected]) = Len(m.stacks[m.selected]) - walk.depth

\* C28: process_hearts(tree, target) pops exactly one value from the selected
\* stack per LessThan or Equals node on the path it takes and none at a leaf:
\* at LessThan(l, r) it goes on into l when the value popped is strictly less
\* than target and into r otherwise, at Equals(l, r) into l when the value
\* popped equals target and into r otherwise, and a poison value always
\* leads into r; the result is the leaf reached (Heart(id), Return or Nil),
\* the number of pops is the depth of that leaf, and neither the selection
\* nor exit_code changes.
C28_ProcessHearts ==
    called.name = "process_hearts" =>
        LET m == called.before IN
        /\ WalkedTo(m, LeafReached(called.heart,
                                   PoppedOf(m, TreeDepth(called.heart)), called.to))
        /\ m.selected \in {1, 2} => called.result = RightmostLeaf(called.heart)
        /\ (m.selected \notin {0, 1, 2} /\ m.stacks[m.selected] = <<>>) =>
              called.result = RightmostLeaf(called.heart)

\* C28 witness: process_hearts, called on Equals(LessThan(Heart(0), Nil),
\* Return) with target 1 and stack 3 holding 0 and 1, has popped both values
\* and reached Heart(0)
C28_Witness ==
    /\ called.name = "process_hearts"
    /\ called.heart = <<"Equals", <<"LessThan", <<"Heart", 0>>, Nil>>, <<"Return">>>>
    /\ called.to = 1
    /\ called.before.selected = 3
    /\ called.before.stacks[3] = <<from_integer(0), from_integer(1)>>
    /\ stacks[3] = <<>>
    /\ called.result = <<"Heart", 0>>

-----------------------------------------------------------------------------
(* The order of a step of the processor as the claims speak of it *)

\* the manager m after the operation of the instruction, called with the
\* repeat count and the magnitude as its two arguments in this order
Operated(m, instr) ==
    LET count     == instr.op.hangul_count
        magnitude == instr.dots
    IN  CASE instr.op.op_type = "Push"        -> push(m, count, magnitude)
          [] instr.op.op_type = "Add"         -> add(m, count, magnitude)
          [] instr.op.op_type = "Multiply"    -> mul(m, count, magnitude)
          [] instr.op.op_type = "Negate"      -> neg(m, count, magnitude)
          [] instr.op.op_type = "Reciprocate" -> recip(m, count, magnitude)
          [] instr.op.op_type = "Duplicate"   -> duplicate(m, count, magnitude)

\* C29: in each step of the processor the operation of the instruction is
\* dispatched first, with the repeat count and the magnitude as its two
\* arguments (so that the magnitude is the id of the target stack of add,
\* multiply, negate, reciprocate and duplicate), and only then is the heart
\* tree evaluated, against the comparison target repeat count x magnitude,
\* on the stack that is selected after the operation ran.
C29_DispatchOrder ==
    last_step.executed =>
        LET instr == last_step.instr
            after == Operated(last_step.before.manager, instr)
            walk  == LeafReached(instr.hearts,
                                 PoppedOf(after, TreeDepth(instr.hearts)),
                                 instr.op.hangul_count * instr.dots)
        IN  /\ last_step.result = walk.leaf
            /\ selected = after.selected
            /\ exit_code = after.exit_code
            /\ DOMAIN stacks = DOMAIN after.stacks
            /\ stacks[selected] = LeftOf(after.stacks[selected], walk.depth)
            /\ \A i \in DOMAIN stacks \ {selected} : stacks[i] = after.stacks[i]
            /\ stdout = after.stdout
            /\ stderr = after.stderr
            /\ (last_step.before.manager.selected \notin {1, 2}
                /\ instr.op.op_type \in {"Add", "Multiply", "Negate", "Reciprocate"})
                  => instr.dots \in DOMAIN stacks
            /\ (last_step.before.manager.selected \notin {1, 2}
                /\ instr.op.op_type = "Duplicate")
                  => selected = instr.dots

\* C29 witness: a duplicate of repeat count 2 and magnitude 4, run with stack
\* 3 selected and holding 8, has pushed two copies of 8 onto stack 4 and
\* selected it, and its heart tree, compared with 8 on stack 4, has popped one
\* of them and reached the heart
C29_Witness ==
    /\ last_step.executed
    /\ last_step.instr.op.op_type = "Duplicate"
    /\ last_step.instr.op.hangul_count = 2
    /\ last_step.instr.dots = 4
    /\ IsNode(last_step.instr.hearts)
    /\ last_step.before.manager.selected = 3
    /\ last_step.before.manager.stacks[3] = <<from_integer(8)>>
    /\ selected = 4
    /\ stacks[4] = <<from_integer(8)>>
    /\ stacks[3] = <<from_integer(8)>>
    /\ last_step.result = <<"Heart", 0>>

-----------------------------------------------------------------------------
(* The output stacks as the claims speak of them *)

\* the value the last call, one of add, mul, neg and recip, folds its pops to
FoldOfCall ==
    LET values == PoppedOf(called.before, called.count)
        temp   == [j \in 1..called.count |-> Transform(values[j])]
    IN  CASE called.name = "add" -> SumOf(values)
          [] called.name = "mul" -> ProductOf(values)
          [] called.name = "neg" -> SumOf(temp)
          [] OTHER               -> ProductOf(temp)

\* the values the last call has pushed onto the stack id, in order
PushedTo(id) ==
    LET m == called.before IN
    CASE called.name = "push" ->
            IF m.selected = id THEN <<from_integer(called.count * called.to)>> ELSE <<>>
      [] CalledArithmetic ->
            IF m.selected \notin {1, 2} /\ called.to = id THEN <<FoldOfCall>> ELSE <<>>
      [] called.name = "duplicate" ->
            IF m.selected \notin {1, 2} /\ called.to = id
            THEN Copies(PoppedOf(m, 1)[1], called.count) ELSE <<>>
      [] OTHER -> <<>>

\* C30: the output stacks 1 and 2 hold no values: every pop from them yields
\* poison, and the bytes on each stream are exactly the renderings of all the
\* values ever pushed to that stack, one after the other in the order of the
\* pushes, with no separator and no newline at the end.
C30_OutputStacks ==
    /\ stacks[1] = <<>> /\ stacks[2] = <<>>
    /\ \A id \in {1, 2} :
          pop_one(Manager, id) = [m |-> Manager, value |-> NaN]
    /\ (called.name = "process_hearts" /\ called.before.selected \in {1, 2}) =>
          called.result = RightmostLeaf(called.heart) /\ NothingMoved
    /\ called.name = "none" => stdout = <<>> /\ stderr = <<>>
    /\ called.name # "none" =>
          /\ stdout = called.before.stdout \o Renderings(PushedTo(1))
          /\ stderr = called.before.stderr \o Renderings(PushedTo(2))

\* C30 witness: a push with stack 1 selected has put the character of its
\* value right after the text an earlier call had written to the stream
C30_Witness ==
    /\ called.name = "push"
    /\ called.before.selected = 1
    /\ called.before.stdout = TooBigText
    /\ stdout = TooBigText \o <<called.count * called.to>>
    /\ stderr = <<>>

-----------------------------------------------------------------------------
(* The input stack as the claims speak of it *)

\* the bytes start with one whole well-formed sequence
StartsWithScalar(bytes) ==
    /\ bytes # <<>>
    /\ Continuations(bytes[1]) >= 0
    /\ Len(bytes) >= Continuations(bytes[1]) + 1
    /\ \A i \in 2..(Continuations(bytes[1]) + 1) : IsContinuation(bytes[i])

\* C31: a pop of the input stack 0 returns the value pushed last while its
\* buffer holds values, and consumes no input; only when the buffer is empty
\* does it decode the next scalar from the input stream and return it as an
\* integer, and it returns poison when the stream is at its end or the
\* decoding fails; the values pushed come back in LIFO order before the
\* stream is read any further.
C31_InputStack ==
    /\ called.name = "pop_one" =>
          LET buffer == called.before.stacks[0]
              bytes  == called.before.stdin
          IN  IF buffer # <<>>
              THEN /\ called.result = buffer[Len(buffer)]
                   /\ stacks[0] = SubSeq(buffer, 1, Len(buffer) - 1)
                   /\ stdin = bytes
              ELSE /\ stacks[0] = <<>>
                   /\ IF StartsWithScalar(bytes)
                      THEN /\ called.result =
                                from_integer(ScalarOf(bytes, Continuations(bytes[1])))
                           /\ stdin = SubSeq(bytes, Continuations(bytes[1]) + 2, Len(bytes))
                      ELSE /\ is_nan(called.result)
                           /\ bytes # <<>> => Len(stdin) < Len(bytes)
    /\ called.name = "push_one" =>
          /\ stacks[0] = called.before.stacks[0] \o <<called.result>>
          /\ stdin = called.before.stdin

\* C31 witness: the fifth call, a pop, has found the buffer empty again and
\* the input untouched by the pushes and pops before it, and has returned
\* the first scalar of the input
C31_Witness ==
    /\ called.name = "pop_one"
    /\ called.nth = 5
    /\ called.before.stacks[0] = <<>>
    /\ called.before.stdin = <<65, 226, 153, 165>>
    /\ called.result = from_integer(65)
    /\ stdin = <<226, 153, 165>>

-----------------------------------------------------------------------------
(* The selection and the exit trigger as the claims speak of them *)

\* C32: the selected stack id changes only through duplicate: push, add,
\* multiply, negate, reciprocate, process_hearts and flush leave it as it
\* was, also when add, multiply, negate or reciprocate make their target
\* stack.
C32_SelectionFrame ==
    called.name \in {"push", "add", "mul", "neg", "recip", "process_hearts", "flush"} =>
        selected = called.before.selected

\* C32 witness: one of the four folds has made its target stack 4 and stack
\* 3 is selected as before
C32_Witness ==
    /\ CalledArithmetic
    /\ called.to = 4
    /\ 4 \notin DOMAIN called.before.stacks
    /\ 4 \in DOMAIN stacks
    /\ called.before.selected = 3
    /\ selected = 3

\* the selected stack of the manager before the last call, one of add, mul,
\* neg and recip, as the pops and the pushes back of that call leave it
SelectedAfterPops ==
    LET m      == called.before
        values == PoppedOf(m, called.count)
        temp   == [j \in 1..called.count |-> Transform(values[j])]
    IN  IF called.name \in {"add", "mul"} THEN LeftOf(m.stacks[m.selected], called.count)
        ELSE LeftOf(m.stacks[m.selected], called.count) \o Reversed(temp)

\* C33: the exit trigger looks at the selected stack id only, never at the
\* target: add, multiply, negate or reciprocate with the target 1 or 2,
\* called while another stack is selected, makes its pops, writes the
\* rendering of its result to the stream of the target and leaves exit_code
\* unset.
C33_TargetNoExit ==
    (CalledArithmetic /\ called.to \in {1, 2} /\ called.before.selected \notin {1, 2}) =>
        LET m == called.before IN
        /\ m.exit_code = None
        /\ exit_code = None
        /\ selected = m.selected
        /\ stacks[m.selected] = SelectedAfterPops
        /\ m.selected = 0 => stdin = PopMany(m, 0, called.count).m.stdin
        /\ stdout = m.stdout \o (IF called.to = 1 THEN Renderings(<<FoldOfCall>>) ELSE <<>>)
        /\ stderr = m.stderr \o (IF called.to = 2 THEN Renderings(<<FoldOfCall>>) ELSE <<>>)

\* C33 witness: add(1, 1), called with stack 3 selected and holding 2, has
\* popped the 2, written its character to the stream of stack 1 and set no
\* exit code
C33_Witness ==
    /\ called.name = "add"
    /\ called.count = 1
    /\ called.to = 1
    /\ called.before.selected = 3
    /\ called.before.stacks[3] = <<from_integer(2)>>
    /\ stacks[3] = <<>>
    /\ stdout = called.before.stdout \o <<2>>
    /\ exit_code = None

\* C39: once the stack 1 or 2 is selected the selection never changes again,
\* whatever is called: every later add, multiply, negate, reciprocate and
\* duplicate only records the exit code and returns, and of the operations
\* only push still has an effect, the writing to that stream.
C39_SelectionFinal ==
    (called.name # "none" /\ called.before.selected \in {1, 2}) =>
        LET m == called.before IN
        /\ selected = m.selected
        /\ (CalledArithmetic \/ called.name = "duplicate") =>
              /\ exit_code = Some(m.selected - 1)
              /\ NothingMoved
        /\ called.name = "process_hearts" => NothingMoved /\ exit_code = m.exit_code
        /\ called.name = "push" =>
              /\ exit_code = m.exit_code
              /\ stacks = m.stacks
              /\ stdin = m.stdin
              /\ m.selected = 1 =>
                    Len(stdout) > Len(m.stdout) /\ stderr = m.stderr
              /\ m.selected = 2 =>
                    Len(stderr) > Len(m.stderr) /\ stdout = m.stdout

\* C39 witness: with stack 2 selected and the exit code 1 recorded by an
\* earlier call, duplicate into stack 3 has left stack 2 selected
C39_Witness ==
    /\ called.name = "duplicate"
    /\ called.to = 3
    /\ called.before.selected = 2
    /\ called.before.exit_code = Some(1)
    /\ selected = 2
    /\ 3 \in DOMAIN stacks

-----------------------------------------------------------------------------
(* The end of a run and the program counter as the claims speak of them *)

\* C37: in a run of the processor no byte is written to either output stream
\* from the moment the exit code is decided: the operation that triggers the
\* exit writes nothing, and the evaluation of the heart tree and the update
\* of the program counter that still happen in that step only pop, getting
\* poison from the stack 1 or 2, and write nothing; no step follows.
C37_NoWriteAfterExit ==
    exit_code # None =>
        LET m == last_step.before.manager IN
        /\ m.exit_code = None
        /\ m.selected \in {1, 2}
        /\ selected = m.selected
        /\ stdout = m.stdout
        /\ stderr = m.stderr
        /\ stacks = m.stacks
        /\ stdin = m.stdin
        /\ last_step.result = RightmostLeaf(last_step.instr.hearts)
        /\ returned # None \/ panicked

\* C37 witness: the step that decided the exit code 0 has evaluated a heart
\* tree and left on the stream of stack 1 just what an earlier step wrote
C37_Witness ==
    /\ exit_code = Some(0)
    /\ last_step.instr.hearts # Nil
    /\ last_step.result = <<"Return">>
    /\ last_step.before.manager.stdout # <<>>
    /\ stdout = last_step.before.manager.stdout
    /\ returned # None

\* C38: for every source text, one that yields no instruction included, at
\* each fetch of an instruction the program counter is a valid index into
\* the instruction list (0 <= position < length), and between the steps
\* position <= length; the list only grows at its end and its i-th element
\* is the i-th instruction the parser produced.
C38_ValidFetch ==
    /\ position >= 0
    /\ position <= Len(instructions)
    /\ instructions = yielded
    /\ steps > 0 =>
          /\ last_step.position >= 0
          /\ last_step.position < Len(instructions)
          /\ Len(last_step.before.instructions) <= Len(instructions)
          /\ last_step.before.instructions =
                SubSeq(instructions, 1, Len(last_step.before.instructions))

-----------------------------------------------------------------------------
(* The scan for a closing syllable as the claims speak of it *)

\* the recognised tokens strictly between the open syllable of the i-th
\* yielded instruction and its closing syllable
ScannedTokens(i) == TokensBetween(StartAt(i) + 1, EndAt(i) - 1)

\* the i-th yielded instruction is made of the operation at its span and of
\* the tokens after that span alone
MadeOfRun(i) ==
    /\ yielded[i].dots = Magnitude(RunOf(i))
    /\ yielded[i].hearts = Hearts(RunOf(i))

\* C34: the punctuation and heart tokens between an open syllable and its
\* closing syllable belong to no instruction: they add nothing to the
\* magnitude or the heart tree of the instruction before, nor of the
\* instruction being resolved, whose token run starts only after the closing
\* syllable.
C34_ScannedTokens ==
    \A i \in 1..Len(yielded) :
        source[StartAt(i)] \in OpenChars =>
            /\ MadeOfRun(i)
            /\ i > 1 =>
                  /\ MadeOfRun(i - 1)
                  /\ NextStart(i - 1) = StartAt(i)
            /\ \A p \in (StartAt(i) + 1)..EndAt(i) :
                  \A j \in 1..Len(yielded) : p < EndAt(j) + 1 \/ p > NextStart(j) - 1

\* C34 witness: the scan of the second instruction has passed a dot, a heart
\* and an exclamation mark; the first instruction has magnitude 0 and no
\* heart tree, the second the magnitude 1 of the dot after its closing
\* syllable and no heart tree
C34_Witness ==
    /\ Len(yielded) = 2
    /\ source[StartAt(2)] = Hyeo
    /\ ScannedTokens(2) = <<<<"Dot">>, <<"Heart", 0>>, <<"ExclamationMark">>>>
    /\ yielded[1] = Expect("Push", 1, 0, Nil)
    /\ yielded[2] = Expect("Push", 2, 1, Nil)

-----------------------------------------------------------------------------
(* The '?' token as the claims speak of it *)

\* the separators of h that are '?' tokens, as their numbers among the
\* separators
QuestionMarks(h) ==
    {m \in 1..Cardinality(Separators(h)) : h[NthSeparator(h, m)][1] = "QuestionMark"}

\* no '!' is outstanding at the m-th separator of h: it is the first, or the
\* one before it is a '?'
NoneOutstanding(h, m) == m = 1 \/ (m - 1) \in QuestionMarks(h)

\* C35: a '?' token closes the current group: it pushes the pending leaf (Nil
\* if there is none) and clears it, and when no '!' is outstanding it makes
\* no Equals node, so that this leaf stays an operand of its own of the later
\* LessThan fold; the token run '?', heart a, '!', heart b gives
\* LessThan(Nil, Equals(a, b)).
C35_QuestionMark ==
    \A i \in 1..Len(yielded) :
        LET h        == HeartRunOf(i)
            operands == LessThanOperands(yielded[i].hearts)
        IN  /\ Len(operands) = Cardinality(QuestionMarks(h)) + 1
            /\ \A m \in QuestionMarks(h) :
                  NoneOutstanding(h, m) =>
                      operands[Cardinality({x \in QuestionMarks(h) : x <= m})] =
                          LeafOfStretch(StretchOf(h, m))
            /\ (Len(h) = 4 /\ h[1] = <<"QuestionMark">> /\ h[3] = <<"ExclamationMark">>
                 /\ ~IsSeparator(h[2]) /\ ~IsSeparator(h[4])) =>
                  yielded[i].hearts =
                      <<"LessThan", Nil, <<"Equals", LeafOfToken(h[2]), LeafOfToken(h[4])>>>>

\* C35 witness: the run '?', heart, '!', return heart has given
\* LessThan(Nil, Equals(Heart(0), Return))
C35_Witness ==
    \E i \in 1..Len(yielded) :
        /\ HeartRunOf(i) = <<<<"QuestionMark">>, <<"Heart", 0>>,
                             <<"ExclamationMark">>, <<"ReturnHeart">>>>
        /\ yielded[i].hearts = <<"LessThan", Nil, <<"Equals", <<"Heart", 0>>, <<"Return">>>>>>

-----------------------------------------------------------------------------
(* The calls of Operation::from_chars as the claims speak of them *)

OperationTypes == {"Push", "Add", "Multiply", "Negate", "Reciprocate", "Duplicate"}

\* the operation op was made from the characters at the positions from..to
\* of the text by a call that Operation::from_chars accepts: with no end
\* character for a self-ending syllable, with a closing syllable of its
\* class for an open syllable
WellFormedCall(op, from, to) ==
    /\ op.op_type \in OperationTypes
    /\ \/ /\ source[from] \in SelfEndingChars
          /\ to = from
       \/ /\ source[from] \in OpenChars
          /\ to > from
          /\ source[to] \in ClosersOf(source[from])

\* C36: for every source text the assertion on the start/closing pair and
\* the unreachable and panic arms of Operation::from_chars never fire: the
\* scanner passes an end character only for an open syllable, and then only
\* a closing syllable valid for the class of that open syllable, and passes
\* no end character only for a self-ending syllable.
C36_FromCharsTotal ==
    /\ \A i \in 1..Len(yielded) :
          /\ yielded[i].op # PanicOp
          /\ WellFormedCall(yielded[i].op, StartAt(i), EndAt(i))
    /\ operation_cache # None =>
          /\ operation_cache[1] # PanicOp
          /\ WellFormedCall(operation_cache[1], Len(source) - cache_span[1],
                            Len(source) - cache_span[2])

\* C36 witness: an instruction made with no end character, and one whose
\* scan from the open syllable Ha has passed the closing syllable of another
\* class and ended at At
C36_Witness ==
    /\ \E j \in 1..Len(yielded) :
          source[StartAt(j)] \in SelfEndingChars /\ yielded[j].op.hangul_count = 1
    /\ \E i \in 1..Len(yielded) :
          /\ source[StartAt(i)] = Ha
          /\ source[EndAt(i)] = At
          /\ \E p \in (StartAt(i) + 1)..(EndAt(i) - 1) : source[p] = Eong
          /\ yielded[i].op.op_type = "Multiply"

-----------------------------------------------------------------------------
(* The output stack of the heart-tree construction as the claims speak of it *)

\* the pending leaf, the output stack and the count of outstanding equals
\* requests after the first k tokens of the run h
HeartStateAfter(h, k) ==
    HeartLoop([current_heart |-> None, tree |-> <<>>, op_count |-> 0], SubSeq(h, 1, k))

\* the equals requests are drained after the first k tokens of h: the next
\* token is a '?', or the run is at its end
DrainedAfter(h, k) == k = Len(h) \/ h[k + 1] = <<"QuestionMark">>

\* C40: during the construction of a heart tree no pop is ever taken from an
\* empty output stack, for every token run: whenever the equals requests are
\* drained, at a '?' or at the end of the run, the output stack with the
\* leaf just pushed holds at least (outstanding count + 1) nodes, each fold
\* shrinks it by one, and after the final LessThan fold exactly one node
\* remains.
C40_NoEmptyPop ==
    \A i \in 1..Len(yielded) :
        LET h == HeartRunOf(i) IN
        /\ \A k \in 0..Len(h) :
              DrainedAfter(h, k) =>
                  /\ Len(HeartStateAfter(h, k).tree) + 1 >= HeartStateAfter(h, k).op_count + 1
                  /\ k < Len(h) =>
                        /\ Len(HeartStateAfter(h, k + 1).tree) =
                              Len(HeartStateAfter(h, k).tree) + 1 - HeartStateAfter(h, k).op_count
                        /\ HeartStateAfter(h, k + 1).op_count = 0
        /\ Len(EqualsGroups(RunOf(i))) =
              Len(HeartStateAfter(h, Len(h)).tree) + 1 - HeartStateAfter(h, Len(h)).op_count
        /\ Len(EqualsGroups(RunOf(i))) >= 1
        /\ Len(FoldLessThan(EqualsGroups(RunOf(i)))) = 1
        /\ yielded[i].hearts = FoldLessThan(EqualsGroups(RunOf(i)))[1]

\* C40 witness: in the run '!', '!', '?', '!' the '?' has drained two
\* requests from an output stack of three nodes, the end of the run one
\* request from a stack of three, and the LessThan fold has left one node
C40_Witness ==
    \E i \in 1..Len(yielded) :
        LET h == HeartRunOf(i) IN
        /\ h = <<<<"ExclamationMark">>, <<"ExclamationMark">>,
                 <<"QuestionMark">>, <<"ExclamationMark">>>>
        /\ Len(HeartStateAfter(h, 2).tree) = 2
        /\ HeartStateAfter(h, 2).op_count = 2
        /\ Len(HeartStateAfter(h, 3).tree) = 1
        /\ Len(HeartStateAfter(h, 4).tree) = 2
        /\ yielded[i].hearts =
              <<"LessThan", <<"Equals", Nil, <<"Equals", Nil, Nil>>>>, <<"Equals", Nil, Nil>>>>

====
